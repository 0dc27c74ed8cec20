------------------------------ MODULE ChatTurn -----------------------------
(***************************************************************************)
(* The chat of one user: conversations and their messages (store_chat.py,   *)
(* dashboard_chat.py), the agent's turn (agent.py run_chat_turn, its tools  *)
(* in agent.py and agent_runs.py) and the daily token budget every model    *)
(* call is metered to (usage.py, store_usage.py).                           *)
(* A turn is a generator that the response stream drives, so turns of one   *)
(* conversation may overlap, and a closed stream ends a turn where it is.   *)
(***************************************************************************)
EXTENDS Naturals, FiniteSets, FiniteSetsExt, Sequences

CONSTANTS
  MaxConvs,      \* conversations, numbered in the order they are created
  MaxTurns,      \* turns, numbered in the order they are posted
  MaxIterations, \* agent.MAX_ITERATIONS
  MaxBlocks,     \* bound on the tool calls of one reply of the model
  Limit,         \* the daily budget; one paid call costs one unit
  MaxUpsets      \* bound on what interferes: a rename, a deletion, a closed
                 \* stream, a restart, usage that rolls off, background work
                 \* that spends

ASSUME ChatTurnAssumption ==
  /\ MaxConvs \in Nat /\ MaxTurns \in Nat /\ MaxUpsets \in Nat
  /\ MaxIterations \in Nat \ {0} /\ MaxBlocks \in Nat /\ Limit \in Nat \ {0}

Convs == 1..MaxConvs
Turns == 1..MaxTurns

VARIABLES
  convs,     \* the conversations there are
  created,   \* how many have been created
  title,     \* conversations.title
  messages,  \* conversation_messages
  turn,      \* the turns, by number
  used,      \* the user's tokens in the budget window, up to the limit
  met,       \* history: turns that ran beside another of their conversation
  raced,     \* history: turns that were under way when the user renamed
  left,      \* history: turns that were under way when the user deleted
  upsets     \* counter for the bound

convVars    == <<convs, created, title>>
historyVars == <<met, raced, left>>
vars == <<convVars, messages, turn, used, historyVars, upsets>>

Off == [pc |-> "off", conv |-> 0, untitled |-> FALSE, say |-> <<>>, seq |-> 0,
        iter |-> 0, todo |-> 0, over |-> 0, end |-> "none"]

At(t, pc)      == turn[t].pc = pc
UnderWay(t)    == ~ At(t, "off") /\ ~ At(t, "ended")
Set(t, r)      == turn' = [turn EXCEPT ![t] = r]
Goto(t, pc)    == Set(t, [turn[t] EXCEPT !.pc = pc])
Ended(r, how)  == [Off EXCEPT !.pc = "ended", !.conv = r.conv, !.end = how]
End(t, how)    == Set(t, Ended(turn[t], how))
InFlight(c)    == {t \in Turns : turn[t].conv = c /\ UnderWay(t) /\ ~ At(t, "gate")}
Upset          == upsets < MaxUpsets /\ upsets' = upsets + 1

Init ==
  /\ convs = {} /\ created = 0
  /\ title = [c \in Convs |-> "none"]
  /\ messages = {}
  /\ turn = [t \in Turns |-> Off]
  /\ used = 0
  /\ met = {} /\ raced = {} /\ left = {}
  /\ upsets = 0

-----------------------------------------------------------------------------
(* The budget.  budget_status reads it, meter_usage adds to it: a call whose *)
(* answer has no usage block costs nothing.                                 *)
Allowed == used < Limit

Meter(n) == used' = Min({used + n, Limit})

(* History: what the turn has spent since the limit was reached.             *)
Paid(r, n) == IF Allowed THEN r ELSE [r EXCEPT !.over = @ + n]

(* usage_window: rows older than the window no longer count.                *)
RollOff ==
  /\ Upset
  /\ used > 0
  /\ used' = 0
  /\ turn' = [t \in Turns |-> [turn[t] EXCEPT !.over = 0]]
  /\ UNCHANGED <<convVars, messages, historyVars>>

(* What the user has running in the background, from a turn, a commit or the  *)
(* topic routes, meters its model calls to the user as well.                 *)
BackgroundSpends ==
  /\ Upset
  /\ used' = Min({used + 1, Limit})
  /\ UNCHANGED <<convVars, messages, turn, historyVars>>

-----------------------------------------------------------------------------
(* The conversations.                                                       *)
CreateConversation ==
  /\ created < MaxConvs
  /\ created' = created + 1
  /\ convs' = convs \union {created'}
  /\ UNCHANGED <<title, messages, turn, used, historyVars, upsets>>

RenameConversation(c) ==
  /\ Upset
  /\ c \in convs
  /\ title' = [title EXCEPT ![c] = "chosen"]
  /\ raced' = raced \union InFlight(c)
  /\ UNCHANGED <<convs, created, messages, turn, used, met, left>>

\* mutant: the conversation's row goes and its messages stay
MessagesKept(c) == messages

MessagesWithout(c) == {m \in messages : m.conv # c}

(* delete_conversation: the row and its messages, in one commit.  A turn     *)
(* that is under way goes on and writes to a conversation that is gone.      *)
DeleteConversation(c) ==
  /\ Upset
  /\ c \in convs
  /\ convs' = convs \ {c}
  /\ messages' = MessagesWithout(c)
  /\ left' = left \union InFlight(c)
  /\ UNCHANGED <<created, title, turn, used, met, raced>>

(* post_message: 404, the rate limit and an empty text refuse it; otherwise  *)
(* the response streams the generator.                                      *)
Post(t, c) ==
  /\ At(t, "off")
  /\ \A u \in Turns : u < t => ~ At(u, "off")
  /\ c \in convs
  /\ Set(t, [Off EXCEPT !.pc = "gate", !.conv = c])
  /\ LET beside == {u \in Turns : turn[u].conv = c /\ UnderWay(u)}
     IN met' = IF beside = {} THEN met ELSE met \union beside \union {t}
  /\ UNCHANGED <<convVars, messages, used, raced, left, upsets>>

-----------------------------------------------------------------------------
(* The turn.                                                                *)
Thread(c) == {m \in messages : m.conv = c}

\* mutant: every turn names its conversation
UntitledAny(c) == TRUE

Untitled(c) == title[c] = "none"

(* The entry: the conversation is read, then the budget, and for the greeting *)
(* the thread and, if it is empty, the user's conversations.                 *)
Gate(t) ==
  LET c == turn[t].conv IN
  /\ At(t, "gate")
  /\ IF c \in convs
     THEN Set(t, [turn[t] EXCEPT !.pc = "budget", !.untitled = Untitled(c)])
     ELSE End(t, "refused")
  /\ UNCHANGED <<convVars, messages, used, historyVars, upsets>>

GateBudget(t) ==
  /\ At(t, "budget")
  /\ IF Allowed THEN Goto(t, "thread") ELSE End(t, "refused")
  /\ UNCHANGED <<convVars, messages, used, historyVars, upsets>>

Ask(t, say) == Set(t, [turn[t] EXCEPT !.pc = "read", !.say = say])

LookThread(t) ==
  /\ At(t, "thread")
  /\ IF Thread(turn[t].conv) = {} THEN Goto(t, "others") ELSE Ask(t, <<"question">>)
  /\ UNCHANGED <<convVars, messages, used, historyVars, upsets>>

LookOthers(t) ==
  /\ At(t, "others")
  /\ Ask(t, IF Cardinality(convs) <= 1 THEN <<"greeting", "question">> ELSE <<"question">>)
  /\ UNCHANGED <<convVars, messages, used, historyVars, upsets>>

(* append_message reads the last position and inserts after it.             *)
LastSeq(c) == Max({m.seq : m \in Thread(c)} \union {0})

\* mutant: the position is that of the last message
NextSeqSame(c) == LastSeq(c)

NextSeq(c) == LastSeq(c) + 1

ReadSeq(t) ==
  /\ At(t, "read")
  /\ Set(t, [turn[t] EXCEPT !.pc = "insert", !.seq = NextSeq(turn[t].conv)])
  /\ UNCHANGED <<convVars, messages, used, historyVars, upsets>>

InsertMessage(t) ==
  LET r == turn[t]  role == Head(r.say)  more == Tail(r.say) IN
  /\ At(t, "insert")
  /\ messages' = messages \union
       {[conv |-> r.conv, seq |-> r.seq, role |-> role, turn |-> t]}
  /\ Set(t, [r EXCEPT !.seq = 0, !.say = more,
                      !.pc = IF more # <<>> THEN "read"
                             ELSE IF role = "question" THEN "loop" ELSE "close"])
  /\ UNCHANGED <<convVars, used, historyVars, upsets>>

(* The head of the loop: the budget is read again from the second pass on.   *)
Exhausted(t) == turn[t].iter >= MaxIterations

\* mutant: the gate before the loop is the only one
MayCallUnchecked(t) == TRUE

MayCall(t) == turn[t].iter = 0 \/ Allowed

Reply(r) == [r EXCEPT !.pc = "read", !.say = <<"reply">>, !.iter = 0]

LoopHead(t) ==
  /\ At(t, "loop")
  /\ IF ~ Exhausted(t) /\ MayCall(t) THEN Goto(t, "call")
     ELSE Set(t, Reply(turn[t]))
  /\ UNCHANGED <<convVars, messages, used, historyVars, upsets>>

(* The next pass, when no tool call of the reply is left.                    *)
Tools(r, n) ==
  [r EXCEPT !.todo = n, !.pc = IF n > 0 THEN "tool" ELSE "loop",
            !.iter = IF n > 0 THEN @ ELSE @ + 1]

(* call_model: it fails, or it answers and stops, or it asks for tools.      *)
ModelFails(t) ==
  /\ At(t, "call")
  /\ End(t, "model")
  /\ UNCHANGED <<convVars, messages, used, historyVars, upsets>>

CallModel(t) ==
  /\ At(t, "call")
  /\ \E n \in {0, 1} : LET r == Paid(turn[t], n) IN
       /\ Meter(n)
       /\ \/ Set(t, Reply(r))
          \/ \E k \in 0..MaxBlocks : Set(t, Tools(r, k))
  /\ UNCHANGED <<convVars, messages, historyVars, upsets>>

-----------------------------------------------------------------------------
(* The tools.  A call leaves the turn with one call less.                    *)
Answered(t, n) == Set(t, Tools(Paid(turn[t], n), turn[t].todo - 1))

Calling(t) == At(t, "tool")


(* read_source, search_stories, get_trending: they only read.                *)
LookTool(t) ==
  /\ Calling(t)
  /\ Answered(t, 0)
  /\ UNCHANGED <<convVars, messages, used, historyVars, upsets>>

(* summarize_article: one more model call, which no budget gates; a failure  *)
(* of it is an answer.                                                      *)
SummarizeTool(t) ==
  /\ Calling(t)
  /\ Meter(1)
  /\ Answered(t, 1)
  /\ UNCHANGED <<convVars, messages, historyVars, upsets>>

(* commit_sources: no search to commit, or existing topics take its sources,  *)
(* or the user pays for the name of a new topic, which is moderated next.     *)
(* No budget gates it.                                                      *)
CommitTool(t) ==
  /\ Calling(t)
  /\ \/ Answered(t, 0) /\ UNCHANGED used
     \/ \E n \in {0, 1} : Meter(n) /\ Set(t, [Paid(turn[t], n) EXCEPT !.pc = "run"])
  /\ UNCHANGED <<convVars, messages, historyVars, upsets>>

(* create_topic and find_sources read the budget before they spend.          *)
GateTool(t) ==
  /\ Calling(t)
  /\ IF Allowed THEN Goto(t, "run") ELSE Answered(t, 0)
  /\ UNCHANGED <<convVars, messages, used, historyVars, upsets>>

(* The topic of create_topic or of a commit is moderated, paid by the user,   *)
(* and may be rejected; find_sources moderates nothing.  The run that starts  *)
(* is linked to the reply, whose id is minted before it is written.          *)
StartRun(t) ==
  /\ At(t, "run")
  /\ \E n \in {0, 1} : Meter(n) /\ Answered(t, n)
  /\ UNCHANGED <<convVars, messages, historyVars, upsets>>

(* The guard around the dispatch: an exception is an answer too, and what was *)
(* spent before it stays spent.                                             *)
\* mutant: the exception leaves the generator
CaughtNot(t, n) == End(t, "broken")

Caught(t, n) == Answered(t, n)

ToolFails(t) ==
  /\ Calling(t) \/ At(t, "run")
  /\ \E n \in {0, 1} : Meter(n) /\ Caught(t, n)
  /\ UNCHANGED <<convVars, messages, historyVars, upsets>>

-----------------------------------------------------------------------------
(* After the reply: the conversation is touched and the turn counted, and a  *)
(* turn that found no title makes one from the question (_default_title: a   *)
(* failed call leaves the question's first words).                          *)
DefaultTitle(t) ==
  \E n \in {0, 1} : Meter(n) /\ Set(t, [Paid(turn[t], n) EXCEPT !.pc = "title"])

Close(t) ==
  /\ At(t, "close")
  /\ IF turn[t].untitled
     THEN DefaultTitle(t)
     ELSE End(t, "done") /\ UNCHANGED used
  /\ UNCHANGED <<convVars, messages, historyVars, upsets>>

SetTitle(t) ==
  LET c == turn[t].conv IN
  /\ At(t, "title")
  /\ title' = IF c \in convs THEN [title EXCEPT ![c] = "made"] ELSE title
  /\ End(t, "done")
  /\ UNCHANGED <<convs, created, messages, used, historyVars, upsets>>

(* The client goes away, or an exception outside the guard ends the stream.  *)
Cut(t) ==
  /\ Upset
  /\ UnderWay(t)
  /\ End(t, "cut")
  /\ UNCHANGED <<convVars, messages, used, historyVars>>

(* The server restarts.                                                     *)
Restart ==
  /\ Upset
  /\ \E t \in Turns : UnderWay(t)
  /\ turn' = [t \in Turns |-> IF UnderWay(t) THEN Ended(turn[t], "cut") ELSE turn[t]]
  /\ UNCHANGED <<convVars, messages, used, historyVars>>

Enter(t) == Gate(t) \/ GateBudget(t) \/ LookThread(t) \/ LookOthers(t)
Write(t) == ReadSeq(t) \/ InsertMessage(t)
Model(t) == LoopHead(t) \/ ModelFails(t) \/ CallModel(t)
Tool(t)  == \/ LookTool(t) \/ SummarizeTool(t) \/ CommitTool(t)
            \/ GateTool(t) \/ StartRun(t) \/ ToolFails(t)
Finish(t) == Close(t) \/ SetTitle(t)

Step(t) == Enter(t) \/ Write(t) \/ Model(t) \/ Tool(t) \/ Finish(t)

Next ==
  \/ CreateConversation
  \/ \E c \in Convs : RenameConversation(c) \/ DeleteConversation(c)
  \/ \E t \in Turns, c \in Convs : Post(t, c)
  \/ \E t \in Turns : Step(t) \/ Cut(t)
  \/ Restart \/ RollOff \/ BackgroundSpends

Spec == Init /\ [][Next]_vars

-----------------------------------------------------------------------------
(* Every variable has its type.  A position is never beyond the messages      *)
(* three per turn can make (store_chat.py:62-70).                           *)
TypeOK ==
  /\ created \in 0..MaxConvs /\ convs \subseteq 1..created
  /\ title \in [Convs -> {"none", "made", "chosen"}]
  /\ messages \subseteq [conv : Convs, seq : 1..(3 * MaxTurns),
                         role : {"greeting", "question", "reply"}, turn : Turns]
  /\ turn \in [Turns -> [pc : {"off", "gate", "budget", "thread", "others", "read", "insert",
                               "loop", "call", "tool", "run", "close", "title", "ended"},
                         conv : Convs \union {0}, untitled : BOOLEAN,
                         say : {<<>>, <<"greeting", "question">>, <<"question">>,
                                <<"reply">>},
                         seq : 0..(3 * MaxTurns), iter : 0..MaxIterations,
                         todo : 0..MaxBlocks, over : Nat,
                         end : {"none", "refused", "model", "done", "cut", "broken"}]]
  /\ used \in 0..Limit
  /\ met \subseteq Turns /\ raced \subseteq Turns /\ left \subseteq Turns
  /\ upsets \in 0..MaxUpsets

(* The place of the message with this role that t wrote.                     *)
Seqs(t, role) == {m.seq : m \in {n \in messages : n.turn = t /\ n.role = role}}

(* A thread reads as it was held.  Two messages share a place only if their    *)
(* turns ran side by side (append_message reads MAX(seq) and then inserts);    *)
(* a greeting comes before its question and a question before its reply.       *)
(* A turn whose question stands has its reply, which its runs are linked to,  *)
(* unless the model call failed or the stream was cut: no failure of a tool    *)
(* leaves a conversation half-written (agent.py:507-511).  Of a deleted         *)
(* conversation only what turns under way wrote is left.                     *)
ThreadSound ==
  /\ \A m, n \in messages :
       m.conv = n.conv /\ m.seq = n.seq /\ m # n =>
         m.turn # n.turn /\ {m.turn, n.turn} \subseteq met
  /\ \A t \in Turns : \A s \in Seqs(t, "question") :
       /\ \A g \in Seqs(t, "greeting") : g < s
       /\ \A r \in Seqs(t, "reply") : s < r
  /\ \A t \in Turns :
       At(t, "ended") /\ Seqs(t, "question") # {} /\ Seqs(t, "reply") = {} =>
         turn[t].end \in {"model", "cut"}
  /\ \A m \in messages : m.conv \notin convs => m.turn \in left

(* Once the budget is used up a turn makes at most the model call it was about *)
(* to make, two calls for each tool that answer asks for (a commit names and    *)
(* moderates its topic), and the title: agent.py:472-474 reads the budget again *)
(* on each pass.                                                             *)
BudgetStops == \A t \in Turns : turn[t].over <= 1 + 2 * MaxBlocks + 1

(* A title the user has given stays, unless the turn that overwrites it was     *)
(* under way when the user gave it (agent.py:451, 577-580).                  *)
TitleKept ==
  [][\A c \in Convs :
       title[c] = "chosen" /\ title'[c] # "chosen" =>
         \E t \in raced : turn[t].conv = c /\ At(t, "title")]_vars
=============================================================================
