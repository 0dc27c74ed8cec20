--------------------------- MODULE ChatTurnProofs ---------------------------
(***************************************************************************)
(* Proofs about ChatTurn, for any number of conversations and turns, any    *)
(* length of the agent's loop, any budget and any number of upsets:         *)
(*   TypeCorrect     the type invariant, with the bound on the positions;   *)
(*   ThreadsSound    a thread reads as it was held;                         *)
(*   BudgetHolds     what a turn may still spend once the budget is used up; *)
(*   TitlesKept      a title the user gave is overwritten by no turn that    *)
(*                   began after it.                                        *)
(***************************************************************************)
EXTENDS ChatTurn, FiniteSetTheorems, WellFoundedInduction, TLAPS

Roles == {"greeting", "question", "reply"}
Entry == {"gate", "budget", "thread", "others"} \* nothing is decided yet
Asked == {"loop", "call", "tool", "run"}       \* the question is stored
Both  == <<"greeting", "question">>

Turn == [pc : {"off", "gate", "budget", "thread", "others", "read", "insert",
               "loop", "call", "tool", "run", "close", "title", "ended"},
         conv : Convs \union {0}, untitled : BOOLEAN,
         say : {<<>>, Both, <<"question">>, <<"reply">>},
         seq : Nat, iter : 0..MaxIterations, todo : 0..MaxBlocks, over : Nat,
         end : {"none", "refused", "model", "done", "cut", "broken"}]

(***************************************************************************)
(* What a turn alone maintains.  Where it is tells what it has still to say, *)
(* whether it holds a position, that there is a pass and a tool call left,   *)
(* and how much it can have spent beyond the budget.                        *)
(***************************************************************************)
Place(r) ==
  /\ r.say # <<>> <=> r.pc \in {"read", "insert"}
  /\ r.seq # 0 <=> r.pc = "insert"
  /\ r.pc # "off" => r.conv # 0
  /\ r.pc \in {"call", "tool", "run"} => r.iter < MaxIterations
  /\ r.pc \in {"tool", "run"} => r.todo > 0
  /\ r.pc = "title" => r.untitled
  /\ r.end \in IF r.pc = "ended" THEN {"refused", "model", "done", "cut"} ELSE {"none"}

Before(r) == r.pc \in {"read", "insert"} /\ r.say # <<"reply">>

Spent(r) ==
  /\ r.pc \in {"off", "call", "ended"} \/ r.pc \in Entry => r.over = 0
  /\ Before(r) => r.over = 0 /\ r.iter = 0
  /\ r.pc \in Entry => r.iter = 0
  /\ r.pc = "loop" /\ r.iter = 0 => r.over = 0
  /\ r.pc = "tool" => r.over + 2 * r.todo <= 1 + 2 * MaxBlocks
  /\ r.pc = "run" => r.over + 2 * r.todo <= 2 + 2 * MaxBlocks
  /\ r.pc # "title" => r.over <= 1 + 2 * MaxBlocks
  /\ r.over <= 2 + 2 * MaxBlocks

Local(r) == r \in Turn /\ Place(r) /\ Spent(r)

(***************************************************************************)
(* The messages a turn can have written so far, by role.  The set of all     *)
(* of them grows with every insertion, so its size bounds the positions.    *)
(***************************************************************************)
MayHave(r) ==
  IF r.pc = "off" \/ r.pc \in Entry \/ r.end = "refused" \/ r.say = Both THEN {}
  ELSE IF r.say = <<"question">> THEN {"greeting"}
  ELSE IF r.say = <<"reply">> \/ r.pc \in Asked THEN {"greeting", "question"}
  ELSE Roles

Writes == {w \in Turns \X Roles : w[2] \in MayHave(turn[w[1]])}

Message == [conv : Convs, seq : Nat \ {0}, role : Roles, turn : Turns]

TypeInv ==
  /\ created \in 0..MaxConvs /\ convs \subseteq 1..created
  /\ title \in [Convs -> {"none", "made", "chosen"}]
  /\ messages \subseteq Message
  /\ used \in 0..Limit
  /\ met \subseteq Turns /\ raced \subseteq Turns /\ left \subseteq Turns
  /\ upsets \in 0..MaxUpsets
  /\ turn \in [Turns -> Turn]
  /\ \A t \in Turns : Local(turn[t])

PlacesInv ==
  /\ \A m \in messages : m.seq <= Cardinality(Writes)
  /\ \A t \in Turns : turn[t].seq <= Cardinality(Writes) + 1

\* A turn that spends nothing beyond the budget while there is budget.
BudgetInv == Allowed => \A t \in Turns : turn[t].over = 0

\* A message belongs to its turn's conversation and to what it has said.
AuthorInv ==
  \A m \in messages : m.conv = turn[m.turn].conv /\ m.role \in MayHave(turn[m.turn])

\* Turns of a conversation that are under way together have met.
MetInv ==
  \A t, u \in Turns :
    t # u /\ UnderWay(t) /\ UnderWay(u) /\ turn[t].conv = turn[u].conv =>
      {t, u} \subseteq met

\* A position a turn has read is past every message of its conversation, but for
\* those of turns it has met.
FreshInv ==
  \A t \in Turns : At(t, "insert") =>
    \A m \in messages :
      m.conv = turn[t].conv /\ m.seq >= turn[t].seq =>
        m.turn # t /\ {m.turn, t} \subseteq met

SharedInv ==
  \A m, n \in messages :
    m.conv = n.conv /\ m.seq = n.seq /\ m # n =>
      m.turn # n.turn /\ {m.turn, n.turn} \subseteq met

OrderInv ==
  \A m, n \in messages :
    m.turn = n.turn /\ m.role \in {"greeting", "question"}
      /\ n.role \in {"question", "reply"} /\ m.role # n.role => m.seq < n.seq

HasReply(t) == \E m \in messages : m.turn = t /\ m.role = "reply"

\* A turn that has closed has left no question unanswered.
ReplyInv ==
  \A m \in messages :
    m.role = "question" /\ (At(m.turn, "close") \/ At(m.turn, "title")
                              \/ turn[m.turn].end = "done") => HasReply(m.turn)

\* A turn in flight whose conversation is gone was there when it went, and so
\* was the turn of every message that is left of it.
LeftInv ==
  /\ \A t \in Turns :
       UnderWay(t) /\ ~ At(t, "gate") /\ turn[t].conv \notin convs => t \in left
  /\ \A m \in messages : m.conv \notin convs => m.turn \in left

\* A turn that found no title and now sees the user's was there when it was given.
TitleInv ==
  \A t \in Turns :
    /\ UnderWay(t) /\ ~ At(t, "gate") /\ turn[t].untitled
    /\ turn[t].conv # 0 /\ title[turn[t].conv] = "chosen"
    => t \in raced

IInv == /\ TypeInv /\ PlacesInv /\ BudgetInv /\ AuthorInv /\ MetInv /\ FreshInv
        /\ SharedInv /\ OrderInv /\ ReplyInv /\ LeftInv /\ TitleInv

-----------------------------------------------------------------------------
(* A set of naturals has a least element, and a bounded one a greatest.      *)
LEMMA NatMin ==
  ASSUME NEW S \in SUBSET Nat, S # {}
  PROVE  \E m \in S : \A n \in S : m <= n
<1> DEFINE R == OpToRel(<, Nat)
<1>1. IsWellFoundedOn(R, Nat)
  BY NatLessThanWellFounded
<1>2. \A x, y \in Nat : x < y => <<x, y>> \in R
  BY DEF OpToRel
<1> HIDE DEF R
<1>3. PICK x \in S : \A y \in S : ~ (<<y, x>> \in R)
  BY <1>1, WFMin
<1>4. \A y \in S : ~ (y < x)
  BY <1>2, <1>3
<1>5. \A y \in S : x <= y
  BY <1>4
<1> QED
  BY <1>5

LEMMA NatMax ==
  ASSUME NEW S \in SUBSET Nat, S # {}, NEW b \in Nat, \A n \in S : n <= b
  PROVE  Max(S) \in S /\ \A n \in S : n <= Max(S)
<1> DEFINE U == {n \in Nat : \A m \in S : m <= n}
<1>1. U \in SUBSET Nat /\ U # {}
  OBVIOUS
<1> HIDE DEF U
<1>2. PICK u \in U : \A n \in U : u <= n
  BY <1>1, NatMin
<1>3. u \in Nat /\ \A m \in S : m <= u
  BY <1>2 DEF U
<1>4. u \in S
  <2> SUFFICES ASSUME u \notin S PROVE FALSE
    OBVIOUS
  <2>1. \A m \in S : m < u
    BY <1>3
  <2>2. u - 1 \in Nat /\ \A m \in S : m <= u - 1
    <3>1. PICK x \in S : TRUE
      OBVIOUS
    <3>2. x \in Nat /\ x < u
      BY <2>1
    <3> QED
      BY <1>3, <2>1, <3>2
  <2>3. u - 1 \in U
    BY <2>2 DEF U
  <2> QED
    BY <1>2, <1>3, <2>3
<1>5. \E x \in S : \A y \in S : x >= y
  BY <1>3, <1>4
<1>6. Max(S) \in S /\ \A y \in S : Max(S) >= y
  BY <1>5 DEF Max
<1> QED
  BY <1>6

LEMMA MinOfTwo ==
  ASSUME NEW a \in Nat, NEW b \in Nat
  PROVE  Min({a, b}) = IF a <= b THEN a ELSE b
<1>1. Min({a, b}) \in {a, b} /\ \A y \in {a, b} : Min({a, b}) <= y
  <2>1. \E x \in {a, b} : \A y \in {a, b} : x <= y
    OBVIOUS
  <2> QED
    BY <2>1 DEF Min
<1> QED
  BY <1>1

(* What a turn says is one of four things; each has its head and its rest.   *)
LEMMA Sayings ==
  /\ Head(Both) = "greeting" /\ Tail(Both) = <<"question">>
  /\ Head(<<"question">>) = "question" /\ Tail(<<"question">>) = <<>>
  /\ Head(<<"reply">>) = "reply" /\ Tail(<<"reply">>) = <<>>
  /\ Both # <<>> /\ Both # <<"question">> /\ Both # <<"reply">>
  /\ <<"question">> # <<>> /\ <<"question">> # <<"reply">> /\ <<"reply">> # <<>>
BY DEF Both

LEMMA MeterAdds ==
  ASSUME NEW n \in Nat, used \in 0..Limit, Meter(n)
  PROVE  used' \in 0..Limit /\ (Allowed' => Allowed)
<1>1. Limit \in Nat /\ used + n \in Nat
  BY ChatTurnAssumption
<1>2. used' = IF used + n <= Limit THEN used + n ELSE Limit
  BY <1>1, MinOfTwo DEF Meter
<1> QED
  BY <1>1, <1>2 DEF Allowed

(* The writes a turn may still make are finite in number.                    *)
LEMMA WritesBound ==
  /\ IsFiniteSet(Turns \X Roles)
  /\ Cardinality(Turns \X Roles) = 3 * MaxTurns
<1>1. IsFiniteSet(Turns) /\ Cardinality(Turns) = MaxTurns
  BY ChatTurnAssumption, FS_Interval DEF Turns
<1>2. IsFiniteSet(Roles) /\ Cardinality(Roles) = 3
  <2>1. IsFiniteSet({"greeting"}) /\ Cardinality({"greeting"}) = 1
    BY FS_Singleton
  <2>2. /\ IsFiniteSet({"greeting"} \union {"question"})
        /\ Cardinality({"greeting"} \union {"question"}) = 2
    BY <2>1, FS_AddElement
  <2>3. /\ IsFiniteSet(({"greeting"} \union {"question"}) \union {"reply"})
        /\ Cardinality(({"greeting"} \union {"question"}) \union {"reply"}) = 3
    BY <2>2, FS_AddElement
  <2>4. Roles = ({"greeting"} \union {"question"}) \union {"reply"}
    BY DEF Roles
  <2> QED
    BY <2>3, <2>4
<1>3. /\ IsFiniteSet(Turns \X Roles)
      /\ Cardinality(Turns \X Roles) = Cardinality(Turns) * Cardinality(Roles)
  BY <1>1, <1>2, FS_Product
<1> QED
  BY <1>1, <1>2, <1>3, ChatTurnAssumption

LEMMA WritesFinite ==
  /\ IsFiniteSet(Writes) /\ Cardinality(Writes) \in Nat
  /\ Cardinality(Writes) <= 3 * MaxTurns
<1>1. Writes \in SUBSET (Turns \X Roles)
  BY DEF Writes
<1>2. IsFiniteSet(Writes) /\ Cardinality(Writes) <= Cardinality(Turns \X Roles)
  BY <1>1, WritesBound, FS_Subset
<1> QED
  BY <1>2, WritesBound, FS_CardinalityType

-----------------------------------------------------------------------------
(***************************************************************************)
(* A step that writes no message.  Each turn stands still, or has its        *)
(* spending forgotten (Keeps), or goes on (Advances).                       *)
(***************************************************************************)
Keeps(t) ==
  LET r == turn[t]  s == turn'[t] IN
  /\ Local(s)
  /\ s.pc = r.pc /\ s.conv = r.conv /\ s.untitled = r.untitled
  /\ s.say = r.say /\ s.seq = r.seq /\ s.end = r.end

Advances(t) ==
  LET r == turn[t]  s == turn'[t] IN
  /\ UnderWay(t) /\ Local(s) /\ s.conv = r.conv /\ s.pc \notin {"off", "gate"}
  /\ MayHave(r) \subseteq MayHave(s)
  /\ s.pc = "insert" => \A m \in messages : m.conv = s.conv => m.seq < s.seq
  /\ s.seq <= Cardinality(Writes) + 1
  /\ s.pc # "ended" =>
       \/ ~ At(t, "gate") /\ (s.untitled => r.untitled)
       \/ s.conv \in convs /\ (s.untitled => title[s.conv] # "chosen")
  /\ s.pc \in {"close", "title"} \/ s.end = "done" => r.pc \in {"close", "title"}

TitlesFade == \A c \in Convs : title'[c] = "chosen" => title[c] = "chosen"

QuietStep ==
  /\ turn' \in [Turns -> Turn]
  /\ \A t \in Turns : Keeps(t) \/ Advances(t)
  /\ title' \in [Convs -> {"none", "made", "chosen"}] /\ TitlesFade
  /\ used' \in 0..Limit /\ upsets' \in 0..MaxUpsets
  /\ Allowed' => \A t \in Turns : turn'[t].over = 0
  /\ UNCHANGED <<convs, created, messages, historyVars>>

LEMMA QuietMayHave ==
  ASSUME NEW t \in Turns, Keeps(t) \/ Advances(t)
  PROVE  MayHave(turn[t]) \subseteq MayHave(turn'[t]) /\ turn'[t].conv = turn[t].conv
BY DEF Keeps, Advances, MayHave, Entry

LEMMA WritesGrow ==
  ASSUME \A t \in Turns : MayHave(turn[t]) \subseteq MayHave(turn'[t])
  PROVE  Cardinality(Writes) <= Cardinality(Writes')
<1>1. Writes \in SUBSET Writes'
  BY DEF Writes
<1>2. IsFiniteSet(Writes')
  <2>1. Writes' \in SUBSET (Turns \X Roles)
    BY DEF Writes
  <2> QED
    BY <2>1, WritesBound, FS_Subset
<1> QED
  BY <1>1, <1>2, FS_Subset

LEMMA WritesFiniteNext ==
  /\ IsFiniteSet(Writes') /\ Cardinality(Writes') \in Nat
  /\ Cardinality(Writes') <= 3 * MaxTurns
<1>1. Writes' \in SUBSET (Turns \X Roles)
  BY DEF Writes
<1>2. IsFiniteSet(Writes') /\ Cardinality(Writes') <= Cardinality(Turns \X Roles)
  BY <1>1, WritesBound, FS_Subset
<1> QED
  BY <1>2, WritesBound, FS_CardinalityType

LEMMA QuietKeeps ==
  ASSUME IInv, QuietStep
  PROVE  IInv'
<1> USE DEF IInv
<1>0. \A t \in Turns : /\ MayHave(turn[t]) \subseteq MayHave(turn'[t])
                       /\ turn'[t].conv = turn[t].conv
  BY QuietMayHave DEF QuietStep
<1>1. TypeInv'
  BY DEF TypeInv, QuietStep, Keeps, Advances, historyVars
<1>2. PlacesInv'
  <2>1. Cardinality(Writes) <= Cardinality(Writes')
    BY <1>0, WritesGrow
  <2>2. Cardinality(Writes) \in Nat /\ Cardinality(Writes') \in Nat
    BY WritesFinite, WritesFiniteNext
  <2>3. \A m \in messages : m.seq \in Nat
    BY DEF TypeInv, Message
  <2>4. \A t \in Turns : turn'[t].seq \in Nat /\ turn'[t].seq <= Cardinality(Writes) + 1
    BY DEF PlacesInv, QuietStep, Keeps, Advances, TypeInv, Turn
  <2> QED
    BY <2>1, <2>2, <2>3, <2>4 DEF PlacesInv, QuietStep
<1>3. BudgetInv'
  BY DEF BudgetInv, QuietStep
<1>4. AuthorInv'
  BY <1>0 DEF AuthorInv, QuietStep, TypeInv, Message
<1>5. MetInv'
  <2> SUFFICES ASSUME NEW t \in Turns, NEW u \in Turns, t # u, UnderWay(t)', UnderWay(u)',
                      turn'[t].conv = turn'[u].conv
               PROVE  {t, u} \subseteq met
    BY DEF MetInv, QuietStep, historyVars
  <2>1. \A v \in Turns : UnderWay(v)' => UnderWay(v)
    BY DEF QuietStep, Keeps, Advances, UnderWay, At
  <2> QED
    BY <1>0, <2>1 DEF MetInv
<1>6. FreshInv'
  <2> SUFFICES ASSUME NEW t \in Turns, At(t, "insert")', NEW m \in messages,
                      m.conv = turn'[t].conv, m.seq >= turn'[t].seq
               PROVE  m.turn # t /\ {m.turn, t} \subseteq met
    BY DEF FreshInv, QuietStep, historyVars
  <2>1. CASE Keeps(t)
    BY <2>1 DEF Keeps, At, FreshInv
  <2>2. CASE Advances(t)
    <3>1. m.seq < turn'[t].seq /\ m.seq \in Nat /\ turn'[t].seq \in Nat
      BY <2>2 DEF Advances, At, TypeInv, Message, Local, Turn
    <3> QED
      BY <3>1
  <2> QED
    BY <2>1, <2>2 DEF QuietStep
<1>7. SharedInv' /\ OrderInv'
  BY DEF SharedInv, OrderInv, QuietStep, historyVars
<1>8. ReplyInv'
  <2>1. \A t \in Turns : HasReply(t)' <=> HasReply(t)
    BY DEF HasReply, QuietStep
  <2>2. \A t \in Turns : 
          At(t, "close")' \/ At(t, "title")' \/ turn'[t].end = "done" =>
            At(t, "close") \/ At(t, "title") \/ turn[t].end = "done"
    BY DEF QuietStep, Keeps, Advances, At
  <2>3. \A m \in messages : m.turn \in Turns
    BY DEF TypeInv, Message
  <2> QED
    BY <2>1, <2>2, <2>3 DEF ReplyInv, QuietStep
<1>9. LeftInv'
  <2>1. \A m \in messages : m.conv \notin convs => m.turn \in left
    BY DEF LeftInv
  <2>2. ASSUME NEW t \in Turns, UnderWay(t)', ~ At(t, "gate")', turn'[t].conv \notin convs
        PROVE  t \in left
    <3>1. UnderWay(t) /\ ~ At(t, "gate") /\ turn[t].conv \notin convs
      BY <1>0, <2>2 DEF QuietStep, Keeps, Advances, UnderWay, At
    <3> QED
      BY <3>1 DEF LeftInv
  <2> QED
    BY <2>1, <2>2 DEF LeftInv, QuietStep, historyVars
<1>10. TitleInv'
  <2> SUFFICES ASSUME NEW t \in Turns, UnderWay(t)', ~ At(t, "gate")', turn'[t].untitled,
                      turn'[t].conv # 0, title'[turn'[t].conv] = "chosen"
               PROVE  t \in raced
    BY DEF TitleInv, QuietStep, historyVars
  <2>1. turn'[t].conv \in Convs /\ title[turn'[t].conv] = "chosen"
    BY DEF QuietStep, TitlesFade, Turn
  <2>2. UnderWay(t) /\ ~ At(t, "gate") /\ turn[t].untitled
    BY <2>1 DEF QuietStep, Keeps, Advances, UnderWay, At
  <2> QED
    BY <1>0, <2>1, <2>2 DEF TitleInv
<1> QED
  BY <1>1, <1>2, <1>3, <1>4, <1>5, <1>6, <1>7, <1>8, <1>9, <1>10

(* A step of one turn is quiet if its turn goes on.                          *)
LEMMA OneTurn ==
  ASSUME IInv, NEW t \in Turns, NEW r, Set(t, r), Local(r), Advances(t),
         title' \in [Convs -> {"none", "made", "chosen"}], TitlesFade,
         used' \in 0..Limit, Allowed' => Allowed /\ r.over = 0,
         upsets' \in 0..MaxUpsets,
         UNCHANGED <<convs, created, messages, historyVars>>
  PROVE  QuietStep
<1>1. turn \in [Turns -> Turn] /\ \A u \in Turns : Local(turn[u])
  BY DEF IInv, TypeInv
<1>2. turn'[t] = r /\ \A u \in Turns \ {t} : turn'[u] = turn[u]
  BY <1>1 DEF Set
<1>3. turn' \in [Turns -> Turn]
  BY <1>1 DEF Set, Local
<1>4. \A u \in Turns \ {t} : Keeps(u)
  BY <1>1, <1>2 DEF Keeps
<1>5. Allowed' => \A u \in Turns : turn'[u].over = 0
  BY <1>2 DEF IInv, BudgetInv
<1> QED
  BY <1>3, <1>4, <1>5 DEF QuietStep

LEMMA EndedAdvances ==
  ASSUME IInv, NEW t \in Turns, NEW how, Set(t, Ended(turn[t], how)), UnderWay(t),
         how \in {"refused", "model", "done", "cut"},
         how = "refused" => turn[t].pc \in Entry,
         how = "done" => At(t, "close") \/ At(t, "title")
  PROVE  Local(Ended(turn[t], how)) /\ Advances(t) /\ turn'[t].over = 0
<1> DEFINE r == turn[t]
           s == Ended(r, how)
<1>1. r \in Turn /\ Local(r) /\ turn'[t] = s
  BY DEF IInv, TypeInv, Set
<1>2. /\ s.pc = "ended" /\ s.conv = r.conv /\ s.untitled = FALSE /\ s.say = <<>>
      /\ s.seq = 0 /\ s.iter = 0 /\ s.todo = 0 /\ s.over = 0 /\ s.end = how
  BY DEF Ended, Off
<1>3. s \in Turn
  <2>1. Off \in Turn
    BY ChatTurnAssumption DEF Turn, Off
  <2>2. r.conv \in Convs \union {0}
    BY <1>1 DEF Turn
  <2> QED
    BY <2>1, <2>2 DEF Turn, Ended
<1> HIDE DEF s
<1>4. Local(s)
  BY <1>1, <1>2, <1>3, ChatTurnAssumption DEF Local, Place, Spent, Before, Entry, UnderWay, At
<1>5. MayHave(r) \subseteq MayHave(s)
  <2>1. MayHave(s) = IF how = "refused" THEN {} ELSE Roles
    BY <1>2, Sayings DEF MayHave, Entry, Asked
  <2>2. how = "refused" => MayHave(r) = {}
    BY DEF MayHave, Entry, At
  <2> QED
    BY <2>1, <2>2 DEF MayHave, Entry, Roles
<1>6. s.seq <= Cardinality(Writes) + 1
  BY <1>2, WritesFinite
<1>7. s.pc # "insert" /\ s.pc \notin {"off", "gate", "close", "title"} /\ s.conv = r.conv
  BY <1>2
<1>8. s.end = "done" => r.pc \in {"close", "title"}
  BY <1>2 DEF At
<1>9. Advances(t)
  BY <1>1, <1>2, <1>4, <1>5, <1>6, <1>7, <1>8 DEF Advances
<1> QED
  BY <1>1, <1>2, <1>4, <1>9 DEF s

LEMMA GateQuiet == ASSUME IInv, NEW t \in Turns, Gate(t) PROVE QuietStep
<1> DEFINE r == turn[t]  c == r.conv
<1>1. r \in Turn /\ Local(r) /\ r.pc = "gate" /\ c \in Convs /\ UnderWay(t)
  BY DEF IInv, TypeInv, Local, Place, Turn, Gate, At, UnderWay
<1>2. /\ TitlesFade /\ title' \in [Convs -> {"none", "made", "chosen"}]
      /\ used' \in 0..Limit /\ upsets' \in 0..MaxUpsets
      /\ Allowed' => Allowed
      /\ UNCHANGED <<convs, created, messages, historyVars>>
  BY DEF Gate, convVars, IInv, TypeInv, Allowed, TitlesFade
<1>3. CASE c \in convs
  <2> DEFINE s == [r EXCEPT !.pc = "budget", !.untitled = Untitled(c)]
  <2>1. Set(t, s)
    BY <1>3 DEF Gate
  <2>2. /\ s.pc = "budget" /\ s.conv = c /\ s.untitled = (title[c] = "none")
        /\ s.say = r.say /\ s.seq = r.seq /\ s.iter = r.iter
        /\ s.todo = r.todo /\ s.over = r.over /\ s.end = r.end /\ s \in Turn
    BY <1>1 DEF Turn, Untitled
  <2>3. r.over = 0
    BY <1>1 DEF Local, Spent, Entry
  <2> HIDE DEF s
  <2>4. Local(s)
    <3>1. Place(s)
      BY <1>1, <2>2 DEF Local, Place
    <3>2. Spent(s)
      BY <1>1, <2>2, <2>3, ChatTurnAssumption DEF Local, Spent, Before, Entry
    <3> QED
      BY <2>2, <3>1, <3>2 DEF Local
  <2>5. turn'[t] = s
    BY <2>1 DEF IInv, TypeInv, Set
  <2>6. MayHave(r) = {} /\ s.seq = 0
    BY <1>1, <2>2 DEF MayHave, Entry, Local, Place
  <2>7. s.untitled => title[s.conv] # "chosen"
    BY <2>2
  <2>8. s.pc \notin {"off", "gate", "insert", "close", "title"} /\ s.end # "done"
    BY <1>1, <2>2 DEF Local, Place
  <2>9. Advances(t)
    BY <1>1, <1>3, <2>2, <2>4, <2>5, <2>6, <2>7, <2>8, WritesFinite DEF Advances, At
  <2> QED
    BY <1>2, <2>1, <2>2, <2>3, <2>4, <2>9, OneTurn
<1>4. CASE c \notin convs
  <2>1. Set(t, Ended(r, "refused"))
    BY <1>4 DEF Gate, End
  <2>2. Local(Ended(r, "refused")) /\ Advances(t) /\ turn'[t].over = 0
    BY <1>1, <2>1, EndedAdvances DEF Entry
  <2>3. turn'[t] = Ended(r, "refused")
    BY <2>1 DEF IInv, TypeInv, Set
  <2> QED
    BY <1>2, <2>1, <2>2, <2>3, OneTurn
<1> QED
  BY <1>3, <1>4

(* A turn past its gate goes on without ending and without a position.       *)
LEMMA Onward ==
  ASSUME IInv, NEW t \in Turns, NEW s, Set(t, s), Local(s),
         UnderWay(t), ~ At(t, "gate"), s.conv = turn[t].conv,
         s.pc \notin {"off", "gate", "insert", "ended"}, s.untitled = turn[t].untitled,
         MayHave(turn[t]) \subseteq MayHave(s),
         s.pc \in {"close", "title"} => At(t, "close"),
         used' \in 0..Limit, Allowed' => Allowed /\ s.over = 0,
         UNCHANGED <<convVars, messages, historyVars, upsets>>
  PROVE  QuietStep
<1>1. turn'[t] = s
  BY DEF IInv, TypeInv, Set
<1>2. s.end = "none" /\ s.seq = 0
  BY DEF Local, Place
<1>3. Advances(t)
  BY <1>1, <1>2, WritesFinite DEF Advances, At
<1>4. upsets' \in 0..MaxUpsets /\ title' \in [Convs -> {"none", "made", "chosen"}] /\ TitlesFade
  BY DEF IInv, TypeInv, convVars, TitlesFade
<1> QED
  BY <1>3, <1>4, OneTurn DEF convVars

LEMMA PaidRecord ==
  ASSUME NEW r \in Turn, NEW n \in {0, 1}
  PROVE  /\ Paid(r, n) \in Turn
         /\ Paid(r, n).over = IF Allowed THEN r.over ELSE r.over + n
         /\ Paid(r, n).pc = r.pc /\ Paid(r, n).conv = r.conv /\ Paid(r, n).say = r.say
         /\ Paid(r, n).untitled = r.untitled /\ Paid(r, n).seq = r.seq
         /\ Paid(r, n).iter = r.iter /\ Paid(r, n).todo = r.todo
         /\ Paid(r, n).end = r.end
<1>1. CASE Allowed
  BY <1>1 DEF Paid
<1>2. CASE ~ Allowed
  BY <1>2 DEF Paid, Turn
<1> QED
  BY <1>1, <1>2

(* With k tool calls of the reply left, the turn is at the first of them or,  *)
(* with none, at the head of its next pass.                                 *)
LEMMA ToolsLocal ==
  ASSUME NEW p \in Turn, Place(p), p.pc \in {"call", "tool", "run"},
         NEW k \in 0..MaxBlocks, p.over + 2 * k <= 1 + 2 * MaxBlocks
  PROVE  /\ Local(Tools(p, k))
         /\ Tools(p, k).conv = p.conv /\ Tools(p, k).untitled = p.untitled
         /\ Tools(p, k).over = p.over /\ Tools(p, k).pc \in {"tool", "loop"}
         /\ Tools(p, k).say = <<>> /\ Tools(p, k).end = "none"
<1> DEFINE s == Tools(p, k)
<1>1. MaxBlocks \in Nat /\ MaxIterations \in Nat /\ k \in Nat
  BY ChatTurnAssumption
<1>2. /\ s.pc = IF k > 0 THEN "tool" ELSE "loop"
      /\ s.iter = IF k > 0 THEN p.iter ELSE p.iter + 1
      /\ s.todo = k /\ s.conv = p.conv /\ s.untitled = p.untitled /\ s.over = p.over
      /\ s.say = p.say /\ s.seq = p.seq /\ s.end = p.end
  BY DEF Tools, Turn
<1>3. p.iter \in Nat /\ p.iter < MaxIterations /\ p.say = <<>> /\ p.seq = 0 /\ p.end = "none"
      /\ p.conv # 0 /\ p.over \in Nat
  BY DEF Place, Turn
<1>4. s \in Turn
  <2>1. p.iter + 1 \in 0..MaxIterations
    BY <1>1, <1>3
  <2> QED
    BY <1>1, <2>1 DEF Tools, Turn
<1> HIDE DEF s
<1>5. Place(s)
  BY <1>1, <1>2, <1>3 DEF Place
<1>6. Spent(s)
  BY <1>1, <1>2, <1>3 DEF Spent, Before, Entry
<1> QED
  BY <1>2, <1>3, <1>4, <1>5, <1>6 DEF Local, s

LEMMA ReplyLocal ==
  ASSUME NEW r \in Turn, Place(r), r.pc \in {"loop", "call"}, r.over <= 1 + 2 * MaxBlocks
  PROVE  /\ Local(Reply(r)) /\ Reply(r).pc = "read" /\ Reply(r).say = <<"reply">>
         /\ Reply(r).conv = r.conv /\ Reply(r).untitled = r.untitled
         /\ Reply(r).over = r.over /\ Reply(r).end = "none"
<1> DEFINE s == Reply(r)
<1>1. /\ s.pc = "read" /\ s.say = <<"reply">> /\ s.iter = 0 /\ s.conv = r.conv
      /\ s.untitled = r.untitled /\ s.seq = r.seq /\ s.todo = r.todo
      /\ s.over = r.over /\ s.end = r.end /\ s \in Turn
  <2>1. 0 \in 0..MaxIterations
    BY ChatTurnAssumption
  <2> QED
    BY <2>1 DEF Reply, Turn
<1> HIDE DEF s
<1>2. Place(s)
  BY <1>1, Sayings DEF Place
<1>3. Spent(s)
  <2>1. MaxBlocks \in Nat /\ r.over \in Nat
    BY ChatTurnAssumption DEF Turn
  <2> QED
    BY <1>1, <2>1 DEF Spent, Before, Entry
<1> QED
  BY <1>1, <1>2, <1>3 DEF Local, Place, s

(* Once the question is stored and until the reply is, what a turn may have   *)
(* written is the same.                                                     *)
LEMMA AskedMayHave ==
  ASSUME NEW r, r.pc \in Asked \/ (r.say = <<"reply">> /\ r.pc # "off" /\ r.pc \notin Entry),
         r.end # "refused", r.say \notin {Both, <<"question">>}
  PROVE  MayHave(r) = {"greeting", "question"}
BY Sayings DEF MayHave, Entry, Asked

LEMMA AskedNow ==
  ASSUME IInv, NEW t \in Turns, turn[t].pc \in Asked
  PROVE  /\ turn[t] \in Turn /\ Place(turn[t]) /\ Spent(turn[t])
         /\ MayHave(turn[t]) = {"greeting", "question"}
         /\ UnderWay(t) /\ ~ At(t, "gate") /\ ~ At(t, "close")
<1>1. turn[t] \in Turn /\ Place(turn[t]) /\ Spent(turn[t])
  BY DEF IInv, TypeInv, Local
<1>2. turn[t].say = <<>> /\ turn[t].end = "none"
  BY <1>1 DEF Place, Asked
<1>3. MayHave(turn[t]) = {"greeting", "question"}
  <2>1. turn[t].say \notin {Both, <<"question">>} /\ turn[t].end # "refused"
    BY <1>2, Sayings
  <2>2. turn[t].pc # "off" /\ turn[t].pc \notin Entry /\ turn[t].say # <<"question">>
    BY <1>2, Sayings DEF Asked, Entry
  <2> QED
    BY <2>1, <2>2 DEF MayHave, Entry
<1> QED
  BY <1>1, <1>3 DEF UnderWay, At, Asked

LEMMA AnsweredQuiet ==
  ASSUME IInv, NEW t \in Turns, NEW n \in {0, 1}, turn[t].pc \in {"tool", "run"},
         Answered(t, n), used' \in 0..Limit, Allowed' => Allowed,
         UNCHANGED <<convVars, messages, historyVars, upsets>>
  PROVE  QuietStep
<1> DEFINE r == turn[t]  p == Paid(r, n)  s == Tools(p, r.todo - 1)
<1>1. r \in Turn /\ Place(r) /\ Spent(r) /\ MayHave(r) = {"greeting", "question"}
      /\ UnderWay(t) /\ ~ At(t, "gate") /\ ~ At(t, "close")
  BY AskedNow DEF Asked
<1>2. r.todo > 0 /\ r.todo \in 0..MaxBlocks /\ r.over + 2 * r.todo <= 2 + 2 * MaxBlocks
      /\ r.over \in Nat
  <2>1. r.pc \in {"tool", "run"} /\ r.todo \in 0..MaxBlocks /\ r.over \in Nat /\ r.todo > 0
    BY <1>1 DEF Place, Turn
  <2>2. MaxBlocks \in Nat /\ r.todo \in Nat
    BY <2>1, ChatTurnAssumption
  <2>3. r.over + 2 * r.todo <= 2 + 2 * MaxBlocks
    BY <1>1, <2>1, <2>2 DEF Spent
  <2> QED
    BY <2>1, <2>3
<1>3. MaxBlocks \in Nat
  BY ChatTurnAssumption
<1>4. /\ p \in Turn /\ Place(p) /\ p.pc \in {"call", "tool", "run"} /\ p.conv = r.conv
      /\ p.untitled = r.untitled
  BY <1>1, PaidRecord DEF Place
<1>5. p.over \in Nat /\ p.over <= r.over + 1
  BY <1>1, <1>2, PaidRecord
<1> HIDE DEF p
<1>6. r.todo - 1 \in 0..MaxBlocks /\ p.over + 2 * (r.todo - 1) <= 1 + 2 * MaxBlocks
  BY <1>2, <1>3, <1>5
<1>7. Allowed' => Allowed /\ p.over = 0
  <2>1. Allowed => r.over = 0
    BY DEF IInv, BudgetInv
  <2> QED
    BY <1>1, <2>1, PaidRecord DEF p
<1>8. Set(t, s)
  BY DEF Answered, p
<1>9. /\ Local(s) /\ s.conv = r.conv /\ s.untitled = r.untitled /\ s.over = p.over
      /\ s.pc \in {"tool", "loop"} /\ s.say = <<>> /\ s.end = "none"
  BY <1>4, <1>6, ToolsLocal
<1> HIDE DEF s
<1>10. MayHave(s) = {"greeting", "question"}
  BY <1>9, AskedMayHave, Sayings DEF Asked
<1> QED
  BY <1>1, <1>7, <1>8, <1>9, <1>10, Onward

LEMMA ReadSeqQuiet == ASSUME IInv, NEW t \in Turns, ReadSeq(t) PROVE QuietStep
<1> DEFINE r == turn[t]  c == r.conv  S == {m.seq : m \in Thread(c)} \union {0}
           s == [r EXCEPT !.pc = "insert", !.seq = NextSeq(c)]
<1>1. r \in Turn /\ Local(r) /\ r.pc = "read" /\ UnderWay(t) /\ ~ At(t, "gate")
  BY DEF IInv, TypeInv, ReadSeq, At, UnderWay
<1>2. Cardinality(Writes) \in Nat
  BY WritesFinite
<1>3. S \in SUBSET Nat /\ S # {} /\ \A n \in S : n <= Cardinality(Writes)
  BY <1>2 DEF IInv, TypeInv, PlacesInv, Thread, Message
<1>4. LastSeq(c) \in S /\ \A n \in S : n <= LastSeq(c)
  <2> HIDE DEF S
  <2>1. Max(S) \in S /\ \A n \in S : n <= Max(S)
    BY <1>2, <1>3, NatMax
  <2> QED
    BY <2>1 DEF S, LastSeq
<1>5. /\ NextSeq(c) \in Nat \ {0} /\ NextSeq(c) <= Cardinality(Writes) + 1
      /\ \A m \in messages : m.conv = c => m.seq < NextSeq(c)
  <2>1. LastSeq(c) \in Nat /\ LastSeq(c) <= Cardinality(Writes)
    BY <1>3, <1>4
  <2>2. \A m \in messages : m.conv = c => m.seq <= LastSeq(c) /\ m.seq \in Nat
    BY <1>4 DEF Thread, IInv, TypeInv, Message
  <2> QED
    BY <1>2, <2>1, <2>2 DEF NextSeq
<1>6. /\ s.pc = "insert" /\ s.seq = NextSeq(c) /\ s.conv = c /\ s.untitled = r.untitled
      /\ s.say = r.say /\ s.iter = r.iter /\ s.todo = r.todo /\ s.over = r.over
      /\ s.end = r.end /\ s \in Turn
  BY <1>1, <1>5 DEF Turn
<1>7. Set(t, s)
  BY DEF ReadSeq
<1>8. turn'[t] = s
  BY <1>7 DEF IInv, TypeInv, Set
<1> HIDE DEF s
<1>9. Local(s)
  <2>1. Place(s)
    BY <1>1, <1>5, <1>6 DEF Local, Place
  <2>2. Spent(s)
    BY <1>1, <1>6 DEF Local, Spent, Before, Entry
  <2> QED
    BY <1>6, <2>1, <2>2 DEF Local
<1>10. MayHave(r) \subseteq MayHave(s)
  <2>1. r.say # <<>> /\ r.end = s.end /\ r.say = s.say
    BY <1>1, <1>6 DEF Local, Place
  <2> QED
    BY <1>1, <1>6, <2>1 DEF MayHave, Entry, Asked
<1>11. s.end = "none"
  BY <1>6, <1>9 DEF Local, Place
<1>12. Advances(t)
  BY <1>1, <1>5, <1>6, <1>8, <1>9, <1>10, <1>11 DEF Advances
<1>13. Allowed' => Allowed /\ s.over = 0
  BY <1>6 DEF ReadSeq, Allowed, IInv, BudgetInv
<1> QED
  BY <1>7, <1>9, <1>12, <1>13, OneTurn DEF ReadSeq, convVars, IInv, TypeInv, TitlesFade

LEMMA LoopHeadQuiet == ASSUME IInv, NEW t \in Turns, LoopHead(t) PROVE QuietStep
<1> DEFINE r == turn[t]
<1>1. r \in Turn /\ Place(r) /\ Spent(r) /\ MayHave(r) = {"greeting", "question"}
      /\ UnderWay(t) /\ ~ At(t, "gate") /\ ~ At(t, "close") /\ r.pc = "loop"
  BY AskedNow DEF Asked, LoopHead, At
<1>2. UNCHANGED <<convVars, messages, used, historyVars, upsets>>
  BY DEF LoopHead
<1>3. /\ used' \in 0..Limit
      /\ Allowed' => Allowed /\ r.over = 0
  BY <1>2 DEF IInv, TypeInv, BudgetInv, Allowed
<1>4. CASE ~ Exhausted(t) /\ MayCall(t)
  <2> DEFINE s == [r EXCEPT !.pc = "call"]
  <2>1. /\ s.pc = "call" /\ s.conv = r.conv /\ s.untitled = r.untitled /\ s.say = r.say
        /\ s.seq = r.seq /\ s.iter = r.iter /\ s.todo = r.todo /\ s.over = r.over
        /\ s.end = r.end /\ s \in Turn
    BY <1>1 DEF Turn
  <2>2. Set(t, s)
    BY <1>4 DEF LoopHead, Goto
  <2> HIDE DEF s
  <2>3. Place(s)
    <3>1. r.iter < MaxIterations
      BY <1>1, <1>4, ChatTurnAssumption DEF Exhausted, Turn
    <3> QED
      BY <1>1, <2>1, <3>1 DEF Place
  <2>4. s.over = 0
    BY <1>1, <1>4, <2>1 DEF MayCall, Spent, IInv, BudgetInv
  <2>5. Spent(s)
    BY <1>1, <2>1, <2>4, ChatTurnAssumption DEF Spent, Before, Entry
  <2>6. MayHave(s) = {"greeting", "question"}
    <3>1. s.say = <<>> /\ s.end = "none"
      BY <1>1, <2>1, <2>3 DEF Place
    <3> QED
      BY <2>1, <3>1, AskedMayHave, Sayings DEF Asked
  <2> QED
    BY <1>1, <1>2, <1>3, <2>1, <2>2, <2>3, <2>4, <2>5, <2>6, Onward DEF Local
<1>5. CASE ~ (~ Exhausted(t) /\ MayCall(t))
  <2> DEFINE s == Reply(r)
  <2>1. Set(t, s)
    BY <1>5 DEF LoopHead
  <2>2. /\ Local(s) /\ s.pc = "read" /\ s.say = <<"reply">> /\ s.conv = r.conv
        /\ s.untitled = r.untitled /\ s.over = r.over /\ s.end = "none"
    BY <1>1, ReplyLocal DEF Spent
  <2> HIDE DEF s
  <2>3. MayHave(s) = {"greeting", "question"}
    BY <2>2, AskedMayHave, Sayings DEF Entry
  <2> QED
    BY <1>1, <1>2, <1>3, <2>1, <2>2, <2>3, Onward
<1> QED
  BY <1>4, <1>5

LEMMA EndQuiet ==
  ASSUME IInv, NEW t \in Turns, NEW how, End(t, how), UnderWay(t),
         how \in {"refused", "model", "done", "cut"},
         how = "refused" => turn[t].pc \in Entry,
         how = "done" => At(t, "close") \/ At(t, "title"),
         UNCHANGED <<convs, created, messages, used, historyVars>>,
         title' \in [Convs -> {"none", "made", "chosen"}], TitlesFade,
         upsets' \in 0..MaxUpsets
  PROVE  QuietStep
<1>1. Set(t, Ended(turn[t], how))
  BY DEF End
<1>2. Local(Ended(turn[t], how)) /\ Advances(t) /\ turn'[t].over = 0
  BY <1>1, EndedAdvances
<1>3. turn'[t] = Ended(turn[t], how)
  BY <1>1 DEF IInv, TypeInv, Set
<1>4. used' \in 0..Limit /\ (Allowed' => Allowed)
  BY DEF IInv, TypeInv, Allowed
<1> QED
  BY <1>1, <1>2, <1>3, <1>4, OneTurn

(* The rest of the entry: the budget and what decides the greeting.          *)
LEMMA EntryGoesOn ==
  ASSUME IInv, NEW t \in Turns, NEW pc \in {"thread", "others", "read"},
         NEW say \in {<<>>, Both, <<"question">>},
         turn[t].pc \in {"budget", "thread", "others"}, say = <<>> <=> pc # "read",
         Set(t, [turn[t] EXCEPT !.pc = pc, !.say = say]), Allowed \/ turn[t].over = 0,
         UNCHANGED <<convVars, messages, used, historyVars, upsets>>
  PROVE  QuietStep
<1> DEFINE r == turn[t]
           s == [r EXCEPT !.pc = pc, !.say = say]
<1>1. r \in Turn /\ Place(r) /\ Spent(r) /\ UnderWay(t) /\ ~ At(t, "gate") /\ r.over = 0
      /\ r.iter = 0
  BY DEF IInv, TypeInv, Local, Spent, Entry, UnderWay, At
<1>2. /\ s.pc = pc /\ s.conv = r.conv /\ s.untitled = r.untitled /\ s.say = say
      /\ s.seq = r.seq /\ s.iter = r.iter /\ s.todo = r.todo /\ s.over = r.over
      /\ s.end = r.end /\ s \in Turn
  BY <1>1 DEF Turn
<1>3. Set(t, s)
  OBVIOUS
<1> HIDE DEF s
<1>4. Place(s)
  BY <1>1, <1>2, Sayings DEF Place
<1>5. Spent(s)
  BY <1>1, <1>2, Sayings, ChatTurnAssumption DEF Spent, Before, Entry
<1>6. MayHave(r) \subseteq MayHave(s)
  BY DEF MayHave, Entry
<1>7. used' \in 0..Limit /\ (Allowed' => Allowed)
  BY DEF IInv, TypeInv, Allowed
<1>8. Local(s)
  BY <1>2, <1>4, <1>5 DEF Local
<1> QED
  BY <1>1, <1>2, <1>3, <1>6, <1>7, <1>8, Onward

LEMMA EntryQuiet ==
  ASSUME IInv, NEW t \in Turns, GateBudget(t) \/ LookThread(t) \/ LookOthers(t)
  PROVE  QuietStep
<1> DEFINE r == turn[t]
<1>1. r \in Turn /\ Place(r) /\ Spent(r) /\ r.pc \in {"budget", "thread", "others"}
  BY DEF IInv, TypeInv, Local, GateBudget, LookThread, LookOthers, At
<1>2. UNCHANGED <<convVars, messages, used, historyVars, upsets>>
  BY DEF GateBudget, LookThread, LookOthers
<1>3. r.over = 0 /\ r.say = <<>> /\ UnderWay(t)
  BY <1>1 DEF Spent, Place, Entry, UnderWay, At
<1>4. ASSUME NEW pc \in {"thread", "others"}, Goto(t, pc) PROVE QuietStep
  <2>1. [r EXCEPT !.pc = pc] = [r EXCEPT !.pc = pc, !.say = <<>>]
    BY <1>1, <1>3 DEF Turn
  <2>2. Set(t, [r EXCEPT !.pc = pc, !.say = <<>>])
    BY <1>4, <2>1 DEF Goto
  <2> QED
    BY <1>1, <1>2, <1>3, <2>2, EntryGoesOn
<1>5. ASSUME NEW say \in {Both, <<"question">>}, Ask(t, say) PROVE QuietStep
  BY <1>1, <1>2, <1>3, <1>5, EntryGoesOn, Sayings DEF Ask
<1>6. CASE GateBudget(t)
  <2>1. CASE Allowed
    BY <1>4, <1>6, <2>1 DEF GateBudget
  <2>2. CASE ~ Allowed
    <3>1. End(t, "refused")
      BY <1>6, <2>2 DEF GateBudget
    <3> QED
      BY <1>1, <1>2, <1>3, <3>1, EndQuiet DEF Entry, convVars, IInv, TypeInv, TitlesFade
  <2> QED
    BY <2>1, <2>2
<1>7. CASE LookThread(t)
  <2>1. Goto(t, "others") \/ Ask(t, <<"question">>)
    BY <1>7 DEF LookThread
  <2> QED
    BY <1>4, <1>5, <2>1
<1>8. CASE LookOthers(t)
  <2>1. Ask(t, Both) \/ Ask(t, <<"question">>)
    BY <1>8 DEF LookOthers, Both
  <2> QED
    BY <1>5, <2>1
<1> QED
  BY <1>6, <1>7, <1>8

LEMMA CallModelQuiet == ASSUME IInv, NEW t \in Turns, CallModel(t) PROVE QuietStep
<1> DEFINE q == turn[t]
<1>1. q \in Turn /\ Place(q) /\ Spent(q) /\ MayHave(q) = {"greeting", "question"}
      /\ UnderWay(t) /\ ~ At(t, "gate") /\ ~ At(t, "close") /\ q.pc = "call"
  BY AskedNow DEF Asked, CallModel, At
<1>2. PICK n \in {0, 1} :
        /\ Meter(n)
        /\ \/ Set(t, Reply(Paid(q, n)))
           \/ \E k \in 0..MaxBlocks : Set(t, Tools(Paid(q, n), k))
  BY DEF CallModel
<1> DEFINE p == Paid(q, n)
<1>3. used' \in 0..Limit /\ (Allowed' => Allowed)
  BY <1>2, MeterAdds DEF IInv, TypeInv, CallModel
<1>4. /\ p \in Turn /\ Place(p) /\ p.pc = "call" /\ p.conv = q.conv
      /\ p.untitled = q.untitled /\ p.over \in Nat /\ p.over <= 1
      /\ Allowed => p.over = 0
  <2>1. q.over = 0
    BY <1>1 DEF Spent
  <2> QED
    BY <1>1, <2>1, PaidRecord DEF Place
<1>5. UNCHANGED <<convVars, messages, historyVars, upsets>>
  BY DEF CallModel
<1> HIDE DEF p
<1>6. CASE Set(t, Reply(p))
  <2> DEFINE s == Reply(p)
  <2>1. /\ Local(s) /\ s.pc = "read" /\ s.say = <<"reply">> /\ s.conv = p.conv
        /\ s.untitled = p.untitled /\ s.over = p.over /\ s.end = "none"
    <3>1. p.over <= 1 + 2 * MaxBlocks
      BY <1>4, ChatTurnAssumption
    <3> QED
      BY <1>4, <3>1, ReplyLocal
  <2>2. Set(t, s)
    BY <1>6
  <2> HIDE DEF s
  <2>3. MayHave(s) = {"greeting", "question"}
    BY <2>1, AskedMayHave, Sayings DEF Entry
  <2> QED
    BY <1>1, <1>3, <1>4, <1>5, <2>1, <2>2, <2>3, Onward
<1>7. ASSUME NEW k \in 0..MaxBlocks, Set(t, Tools(p, k)) PROVE QuietStep
  <2> DEFINE s == Tools(p, k)
  <2>1. /\ Local(s) /\ s.conv = p.conv /\ s.untitled = p.untitled /\ s.over = p.over
        /\ s.pc \in {"tool", "loop"} /\ s.say = <<>> /\ s.end = "none"
    <3>1. p.over + 2 * k <= 1 + 2 * MaxBlocks
      BY <1>4, ChatTurnAssumption
    <3> QED
      BY <1>4, <3>1, ToolsLocal
  <2>2. Set(t, s)
    BY <1>7
  <2> HIDE DEF s
  <2>3. MayHave(s) = {"greeting", "question"}
    BY <2>1, AskedMayHave, Sayings DEF Asked
  <2> QED
    BY <1>1, <1>3, <1>4, <1>5, <2>1, <2>2, <2>3, Onward
<1> QED
  BY <1>2, <1>6, <1>7 DEF p

(* The name of a commit's new topic is paid, and its moderation comes next.  *)
LEMMA NamingQuiet ==
  ASSUME IInv, NEW t \in Turns, NEW n \in {0, 1}, turn[t].pc = "tool", Meter(n),
         Set(t, [Paid(turn[t], n) EXCEPT !.pc = "run"]),
         UNCHANGED <<convVars, messages, historyVars, upsets>>
  PROVE  QuietStep
<1> DEFINE r == turn[t]  p == Paid(r, n)  s == [p EXCEPT !.pc = "run"]
<1>1. r \in Turn /\ Place(r) /\ Spent(r) /\ MayHave(r) = {"greeting", "question"}
      /\ UnderWay(t) /\ ~ At(t, "gate") /\ ~ At(t, "close")
  BY AskedNow DEF Asked
<1>2. /\ s.pc = "run" /\ s.conv = r.conv /\ s.untitled = r.untitled /\ s.say = r.say
      /\ s.seq = r.seq /\ s.iter = r.iter /\ s.todo = r.todo
      /\ s.over = (IF Allowed THEN r.over ELSE r.over + n)
      /\ s.end = r.end /\ s \in Turn
  <2>1. p \in Turn
    BY <1>1, PaidRecord
  <2>2. s \in Turn /\ s.pc = "run" /\ s.conv = p.conv /\ s.untitled = p.untitled
        /\ s.say = p.say /\ s.seq = p.seq /\ s.iter = p.iter /\ s.todo = p.todo
        /\ s.over = p.over /\ s.end = p.end
    <3> HIDE DEF p
    <3> QED
      BY <2>1 DEF Turn
  <2> QED
    BY <1>1, <2>2, PaidRecord
<1>3. Set(t, s)
  OBVIOUS
<1> HIDE DEF s
<1>4. Place(s)
  BY <1>1, <1>2 DEF Place
<1>5. Spent(s)
  <2>1. s.over \in Nat /\ s.over <= r.over + 1 /\ r.over \in Nat /\ r.todo \in Nat
        /\ r.todo > 0 /\ r.over + 2 * r.todo <= 1 + 2 * MaxBlocks /\ MaxBlocks \in Nat
    <3>1. r.todo \in 0..MaxBlocks /\ r.over \in Nat /\ r.todo > 0 /\ MaxBlocks \in Nat
      BY <1>1, ChatTurnAssumption DEF Turn, Place
    <3>2. r.over + 2 * r.todo <= 1 + 2 * MaxBlocks
      BY <1>1 DEF Spent
    <3> QED
      BY <1>2, <3>1, <3>2
  <2>2. s.over + 2 * s.todo <= 2 + 2 * MaxBlocks /\ s.over <= 1 + 2 * MaxBlocks
    BY <1>2, <2>1
  <2>3. s.over <= 2 + 2 * MaxBlocks
    BY <2>1, <2>2
  <2> QED
    BY <1>2, <2>2, <2>3 DEF Spent, Before, Entry
<1>6. MayHave(s) = {"greeting", "question"}
  <2>1. s.say = <<>> /\ s.end = "none"
    BY <1>1, <1>2, <1>4 DEF Place
  <2> QED
    BY <1>2, <2>1, AskedMayHave, Sayings DEF Asked
<1>7. used' \in 0..Limit /\ (Allowed' => Allowed /\ s.over = 0)
  BY <1>2, MeterAdds DEF IInv, TypeInv, BudgetInv
<1> QED
  BY <1>1, <1>2, <1>3, <1>4, <1>5, <1>6, <1>7, Onward DEF Local

LEMMA ToolQuiet == ASSUME IInv, NEW t \in Turns, Tool(t) PROVE QuietStep
<1> USE DEF IInv, TypeInv
<1>1. CASE LookTool(t)
  BY <1>1, AnsweredQuiet DEF LookTool, Calling, At, Allowed
<1>2. CASE SummarizeTool(t)
  BY <1>2, AnsweredQuiet, MeterAdds DEF SummarizeTool, Calling, At
<1>3. CASE CommitTool(t)
  <2>1. turn[t].pc = "tool" /\ UNCHANGED <<convVars, messages, historyVars, upsets>>
    BY <1>3 DEF CommitTool, Calling, At
  <2>2. CASE Answered(t, 0) /\ UNCHANGED used
    BY <2>1, <2>2, AnsweredQuiet DEF Allowed
  <2>3. ASSUME NEW n \in {0, 1}, Meter(n), Set(t, [Paid(turn[t], n) EXCEPT !.pc = "run"])
        PROVE  QuietStep
    BY <2>1, <2>3, NamingQuiet
  <2> QED
    BY <1>3, <2>2, <2>3 DEF CommitTool
<1>4. CASE StartRun(t)
  <2>1. PICK n \in {0, 1} : Meter(n) /\ Answered(t, n)
    BY <1>4 DEF StartRun
  <2> QED
    BY <1>4, <2>1, AnsweredQuiet, MeterAdds DEF StartRun, At
<1>5. CASE ToolFails(t)
  <2>1. PICK n \in {0, 1} : Meter(n) /\ Answered(t, n)
    BY <1>5 DEF ToolFails, Caught
  <2> QED
    BY <1>5, <2>1, AnsweredQuiet, MeterAdds DEF ToolFails, Calling, At
<1>6. CASE GateTool(t)
  <2>1. CASE ~ Allowed
    BY <1>6, <2>1, AnsweredQuiet DEF GateTool, Calling, At, Allowed
  <2>2. CASE Allowed
    <3> DEFINE r == turn[t]  s == [r EXCEPT !.pc = "run"]
    <3>1. r \in Turn /\ Place(r) /\ Spent(r) /\ MayHave(r) = {"greeting", "question"}
          /\ UnderWay(t) /\ ~ At(t, "gate") /\ ~ At(t, "close") /\ r.pc = "tool"
      BY <1>6, AskedNow DEF Asked, GateTool, Calling, At
    <3>2. /\ s.pc = "run" /\ s.conv = r.conv /\ s.untitled = r.untitled /\ s.say = r.say
          /\ s.seq = r.seq /\ s.iter = r.iter /\ s.todo = r.todo /\ s.over = r.over
          /\ s.end = r.end /\ s \in Turn
      BY <3>1 DEF Turn
    <3>3. Set(t, s)
      BY <1>6, <2>2 DEF GateTool, Goto
    <3>4. UNCHANGED <<convVars, messages, used, historyVars, upsets>> /\ r.over = 0
      BY <1>6, <2>2 DEF GateTool, BudgetInv
    <3> HIDE DEF s
    <3>5. Place(s)
      BY <3>1, <3>2 DEF Place
    <3>6. Spent(s)
      <4>1. s.over = 0 /\ s.over + 2 * s.todo <= 1 + 2 * MaxBlocks
        BY <3>1, <3>2, <3>4 DEF Spent
      <4>2. MaxBlocks \in Nat /\ s.todo \in Nat
        BY <3>2, ChatTurnAssumption DEF Turn
      <4>3. /\ s.over + 2 * s.todo <= 2 + 2 * MaxBlocks
            /\ s.over <= 1 + 2 * MaxBlocks /\ s.over <= 2 + 2 * MaxBlocks
        BY <4>1, <4>2
      <4> QED
        BY <3>2, <4>3 DEF Spent, Before, Entry
    <3>7. MayHave(s) = {"greeting", "question"}
      <4>1. s.say = <<>> /\ s.end = "none"
        BY <3>1, <3>2, <3>5 DEF Place
      <4> QED
        BY <3>2, <4>1, AskedMayHave, Sayings DEF Asked
    <3> QED
      BY <3>1, <3>2, <3>3, <3>4, <3>5, <3>6, <3>7, Onward DEF Local, Allowed
  <2> QED
    BY <2>1, <2>2
<1> QED
  BY <1>1, <1>2, <1>3, <1>4, <1>5, <1>6 DEF Tool

LEMMA CloseQuiet == ASSUME IInv, NEW t \in Turns, Close(t) PROVE QuietStep
<1> DEFINE r == turn[t]
<1>1. r \in Turn /\ Place(r) /\ Spent(r) /\ r.pc = "close" /\ UnderWay(t)
      /\ ~ At(t, "gate") /\ At(t, "close")
  BY DEF IInv, TypeInv, Local, Close, At, UnderWay
<1>2. UNCHANGED <<convVars, messages, historyVars, upsets>>
  BY DEF Close
<1>3. CASE ~ r.untitled
  <2>1. End(t, "done") /\ UNCHANGED used
    BY <1>3 DEF Close
  <2> QED
    BY <1>1, <1>2, <2>1, EndQuiet DEF IInv, TypeInv, convVars, TitlesFade
<1>4. CASE r.untitled
  <2>1. PICK n \in {0, 1} : Meter(n) /\ Set(t, [Paid(r, n) EXCEPT !.pc = "title"])
    BY <1>4 DEF Close, DefaultTitle
  <2> DEFINE p == Paid(r, n)  s == [p EXCEPT !.pc = "title"]
  <2>2. /\ s.pc = "title" /\ s.conv = r.conv /\ s.untitled = r.untitled /\ s.say = r.say
        /\ s.seq = r.seq /\ s.iter = r.iter /\ s.todo = r.todo
        /\ s.over = (IF Allowed THEN r.over ELSE r.over + n)
        /\ s.end = r.end /\ s \in Turn
    <3>1. p \in Turn
      BY <1>1, PaidRecord
    <3>2. s \in Turn /\ s.pc = "title" /\ s.conv = p.conv /\ s.untitled = p.untitled
          /\ s.say = p.say /\ s.seq = p.seq /\ s.iter = p.iter /\ s.todo = p.todo
          /\ s.over = p.over /\ s.end = p.end
      <4> HIDE DEF p
      <4> QED
        BY <3>1 DEF Turn
    <3> QED
      BY <1>1, <3>2, PaidRecord
  <2>3. used' \in 0..Limit /\ (Allowed' => Allowed /\ s.over = 0)
    BY <1>2, <2>1, <2>2, MeterAdds DEF IInv, TypeInv, BudgetInv
  <2> HIDE DEF s
  <2>4. Place(s)
    BY <1>1, <1>4, <2>2 DEF Place
  <2>5. Spent(s)
    <3>1. s.over <= 2 + 2 * MaxBlocks
      <4>1. r.over \in Nat /\ r.over <= 1 + 2 * MaxBlocks
        BY <1>1 DEF Spent, Turn
      <4>2. s.over = r.over \/ s.over = r.over + n
        BY <2>2
      <4> HIDE DEF r, p
      <4> QED
        BY <4>1, <4>2, ChatTurnAssumption
    <3> QED
      BY <2>2, <3>1 DEF Spent, Before, Entry
  <2>6. MayHave(s) = Roles
    BY <1>1, <2>2, Sayings DEF Place, MayHave, Entry, Asked
  <2>7. MayHave(r) \subseteq Roles
    BY DEF MayHave, Entry, Roles
  <2> QED
    BY <1>1, <1>2, <2>1, <2>2, <2>3, <2>4, <2>5, <2>6, <2>7, Onward DEF Local, s
<1> QED
  BY <1>3, <1>4

LEMMA SetTitleQuiet == ASSUME IInv, NEW t \in Turns, SetTitle(t) PROVE QuietStep
<1> DEFINE c == turn[t].conv
<1>1. title' \in [Convs -> {"none", "made", "chosen"}] /\ TitlesFade
  BY DEF SetTitle, IInv, TypeInv, TitlesFade
<1>2. UnderWay(t) /\ At(t, "title") /\ End(t, "done")
  BY DEF SetTitle, UnderWay, At
<1> QED
  BY <1>1, <1>2, EndQuiet DEF SetTitle, IInv, TypeInv

LEMMA CutQuiet == ASSUME IInv, NEW t \in Turns, Cut(t) PROVE QuietStep
<1>1. UnderWay(t) /\ End(t, "cut") /\ upsets' \in 0..MaxUpsets
  BY ChatTurnAssumption DEF Cut, Upset, IInv, TypeInv
<1> QED
  BY <1>1, EndQuiet DEF Cut, convVars, IInv, TypeInv, TitlesFade

LEMMA StepKeeps ==
  ASSUME IInv, NEW t \in Turns, Enter(t) \/ ReadSeq(t) \/ Model(t) \/ Tool(t) \/ Finish(t) \/ Cut(t)
  PROVE  IInv'
<1>1. CASE Enter(t)
  BY <1>1, GateQuiet, EntryQuiet, QuietKeeps DEF Enter
<1>2. CASE ReadSeq(t)
  BY <1>2, ReadSeqQuiet, QuietKeeps
<1>3. CASE LoopHead(t)
  BY <1>3, LoopHeadQuiet, QuietKeeps
<1>4. CASE ModelFails(t)
  <2>1. UnderWay(t) /\ End(t, "model")
    BY <1>4 DEF ModelFails, UnderWay, At
  <2> QED
    BY <1>4, <2>1, EndQuiet, QuietKeeps DEF ModelFails, convVars, IInv, TypeInv, TitlesFade
<1>5. CASE CallModel(t)
  BY <1>5, CallModelQuiet, QuietKeeps
<1>6. CASE Tool(t)
  BY <1>6, ToolQuiet, QuietKeeps
<1>7. CASE Close(t)
  BY <1>7, CloseQuiet, QuietKeeps
<1>8. CASE SetTitle(t)
  BY <1>8, SetTitleQuiet, QuietKeeps
<1>9. CASE Cut(t)
  BY <1>9, CutQuiet, QuietKeeps
<1> QED
  BY <1>1, <1>2, <1>3, <1>4, <1>5, <1>6, <1>7, <1>8, <1>9 DEF Model, Finish

(* The steps of no turn in particular.                                      *)
LEMMA RestartKeeps == ASSUME IInv, Restart PROVE IInv'
<1>1. turn' = [t \in Turns |-> IF UnderWay(t) THEN Ended(turn[t], "cut") ELSE turn[t]]
  BY DEF Restart
<1>2. ASSUME NEW t \in Turns
      PROVE  (Keeps(t) \/ Advances(t)) /\ turn'[t] \in Turn /\ (Allowed' => turn'[t].over = 0)
  <2>1. CASE UnderWay(t)
    <3> DEFINE s == Ended(turn[t], "cut")
    <3>1. turn[t] \in Turn /\ Local(turn[t]) /\ turn'[t] = s
      BY <1>1, <2>1 DEF IInv, TypeInv
    <3>2. /\ s.pc = "ended" /\ s.conv = turn[t].conv /\ s.untitled = FALSE /\ s.say = <<>>
          /\ s.seq = 0 /\ s.iter = 0 /\ s.todo = 0 /\ s.over = 0 /\ s.end = "cut"
      BY DEF Ended, Off
    <3>3. s \in Turn
      <4>1. Off \in Turn
        BY ChatTurnAssumption DEF Turn, Off
      <4>2. turn[t].conv \in Convs \union {0}
        BY <3>1 DEF Turn
      <4> QED
        BY <4>1, <4>2 DEF Turn, Ended
    <3> HIDE DEF s
    <3>4. Local(s)
      BY <2>1, <3>1, <3>2, <3>3, ChatTurnAssumption DEF Local, Place, Spent, Before, Entry, UnderWay, At
    <3>5. MayHave(s) = Roles
      BY <3>2, Sayings DEF MayHave, Entry, Asked
    <3>6. MayHave(turn[t]) \subseteq Roles
      BY DEF MayHave, Entry, Roles
    <3> QED
      BY <2>1, <3>1, <3>2, <3>3, <3>4, <3>5, <3>6, WritesFinite DEF Advances
  <2>2. CASE ~ UnderWay(t)
    <3>1. turn'[t] = turn[t] /\ used' = used
      BY <1>1, <2>2 DEF Restart
    <3> QED
      BY <3>1 DEF Keeps, IInv, TypeInv, Allowed, BudgetInv
  <2> QED
    BY <2>1, <2>2
<1>3. turn' \in [Turns -> Turn]
  <2>1. \A t \in Turns : (IF UnderWay(t) THEN Ended(turn[t], "cut") ELSE turn[t]) \in Turn
    BY <1>1, <1>2
  <2> QED
    BY <1>1, <2>1
<1>4. upsets' \in 0..MaxUpsets
  BY ChatTurnAssumption DEF Restart, Upset, IInv, TypeInv
<1>5. QuietStep
  BY <1>2, <1>3, <1>4 DEF QuietStep, Restart, IInv, TypeInv, convVars, TitlesFade
<1> QED
  BY <1>5, QuietKeeps

LEMMA RollOffKeeps == ASSUME IInv, RollOff PROVE IInv'
<1>1. turn' = [t \in Turns |-> [turn[t] EXCEPT !.over = 0]]
  BY DEF RollOff
<1>2. ASSUME NEW t \in Turns
      PROVE  Keeps(t) /\ [turn[t] EXCEPT !.over = 0] \in Turn /\ turn'[t].over = 0
  <2> DEFINE r == turn[t]  s == [r EXCEPT !.over = 0]
  <2>1. r \in Turn /\ Place(r) /\ Spent(r) /\ turn'[t] = s
    BY <1>1 DEF IInv, TypeInv, Local
  <2>2. /\ s.pc = r.pc /\ s.conv = r.conv /\ s.untitled = r.untitled /\ s.say = r.say
        /\ s.seq = r.seq /\ s.iter = r.iter /\ s.todo = r.todo /\ s.over = 0
        /\ s.end = r.end /\ s \in Turn
    BY <2>1 DEF Turn
  <2> HIDE DEF s
  <2>3. Place(s)
    BY <2>1, <2>2 DEF Place
  <2>4. Spent(s)
    <3>1. s.over = 0 /\ s.todo \in 0..MaxBlocks /\ MaxBlocks \in Nat
      BY <2>1, <2>2, ChatTurnAssumption DEF Turn
    <3>2. 2 * s.todo <= 1 + 2 * MaxBlocks /\ 2 * s.todo <= 2 + 2 * MaxBlocks
      BY <3>1
    <3> QED
      BY <2>1, <2>2, <3>1, <3>2 DEF Spent, Before, Entry
  <2> QED
    BY <2>1, <2>2, <2>3, <2>4 DEF Keeps, Local, s
<1>3. turn' \in [Turns -> Turn]
  BY <1>1, <1>2
<1>4. upsets' \in 0..MaxUpsets /\ used' \in 0..Limit
  BY ChatTurnAssumption DEF RollOff, Upset, IInv, TypeInv
<1>5. QuietStep
  BY <1>2, <1>3, <1>4 DEF QuietStep, RollOff, IInv, TypeInv, convVars, TitlesFade
<1> QED
  BY <1>5, QuietKeeps

LEMMA StillTurns ==
  ASSUME IInv, turn' = turn
  PROVE  turn' \in [Turns -> Turn] /\ \A t \in Turns : Keeps(t)
BY DEF IInv, TypeInv, Keeps

LEMMA BackgroundKeeps == ASSUME IInv, BackgroundSpends PROVE IInv'
<1>1. Meter(1) /\ turn' = turn /\ upsets' \in 0..MaxUpsets
  BY ChatTurnAssumption DEF BackgroundSpends, Meter, Upset, IInv, TypeInv
<1>2. used' \in 0..Limit /\ (Allowed' => Allowed)
  BY <1>1, MeterAdds DEF IInv, TypeInv
<1>3. QuietStep
  BY <1>1, <1>2, StillTurns DEF QuietStep, BackgroundSpends, IInv, TypeInv, BudgetInv, convVars, TitlesFade
<1> QED
  BY <1>3, QuietKeeps

LEMMA StutterKeeps == ASSUME IInv, UNCHANGED vars PROVE IInv'
<1>1. QuietStep
  BY StillTurns DEF QuietStep, vars, IInv, TypeInv, BudgetInv, Allowed, convVars, TitlesFade
<1> QED
  BY <1>1, QuietKeeps

-----------------------------------------------------------------------------
(* The conversations: no turn moves.                                        *)
LEMMA SameWrites == ASSUME turn' = turn PROVE Writes' = Writes
BY DEF Writes

LEMMA CreateKeeps == ASSUME IInv, CreateConversation PROVE IInv'
<1> USE DEF IInv
<1>1. /\ turn' = turn /\ UNCHANGED <<title, messages, used, historyVars, upsets>>
      /\ created < MaxConvs /\ created' = created + 1 /\ convs' = convs \union {created'}
  BY DEF CreateConversation
<1>2. TypeInv'
  <2>1. created' \in 0..MaxConvs /\ convs' \subseteq 1..created'
    BY <1>1, ChatTurnAssumption DEF TypeInv
  <2> QED
    BY <1>1, <2>1 DEF TypeInv, historyVars
<1>3. PlacesInv'
  BY <1>1, SameWrites DEF PlacesInv
<1>4. BudgetInv' /\ AuthorInv' /\ MetInv' /\ FreshInv' /\ SharedInv' /\ OrderInv' /\ TitleInv'
  BY <1>1 DEF BudgetInv, Allowed, AuthorInv, MetInv, FreshInv, SharedInv, OrderInv,
              TitleInv, UnderWay, At, historyVars
<1>5. ReplyInv'
  BY <1>1 DEF ReplyInv, HasReply, At
<1>6. LeftInv'
  BY <1>1 DEF LeftInv, UnderWay, At, historyVars
<1> QED
  BY <1>2, <1>3, <1>4, <1>5, <1>6

LEMMA RenameKeeps == ASSUME IInv, NEW c \in Convs, RenameConversation(c) PROVE IInv'
<1> USE DEF IInv
<1>1. /\ turn' = turn /\ UNCHANGED <<convs, created, messages, used, met, left>>
      /\ title' = [title EXCEPT ![c] = "chosen"] /\ raced' = raced \union InFlight(c)
      /\ upsets' \in 0..MaxUpsets
  BY ChatTurnAssumption DEF RenameConversation, Upset, TypeInv
<1>2. TypeInv'
  BY <1>1 DEF TypeInv, InFlight
<1>3. PlacesInv'
  BY <1>1, SameWrites DEF PlacesInv
<1>4. BudgetInv' /\ AuthorInv' /\ MetInv' /\ FreshInv' /\ SharedInv' /\ OrderInv'
  BY <1>1 DEF BudgetInv, Allowed, AuthorInv, MetInv, FreshInv, SharedInv, OrderInv,
              UnderWay, At
<1>5. ReplyInv'
  BY <1>1 DEF ReplyInv, HasReply, At
<1>6. LeftInv'
  BY <1>1 DEF LeftInv, UnderWay, At
<1>7. TitleInv'
  <2> SUFFICES ASSUME NEW t \in Turns, UnderWay(t), ~ At(t, "gate"), turn[t].untitled,
                      turn[t].conv # 0, title'[turn[t].conv] = "chosen"
               PROVE  t \in raced'
    BY <1>1 DEF TitleInv, UnderWay, At
  <2>1. CASE turn[t].conv = c
    BY <1>1, <2>1 DEF InFlight
  <2>2. CASE turn[t].conv # c
    <3>1. turn[t].conv \in Convs
      BY DEF TypeInv, Turn
    <3>2. title[turn[t].conv] = "chosen"
      BY <1>1, <2>2, <3>1 DEF TypeInv
    <3> QED
      BY <1>1, <3>2 DEF TitleInv
  <2> QED
    BY <2>1, <2>2
<1> QED
  BY <1>2, <1>3, <1>4, <1>5, <1>6, <1>7

(* Every message of a turn is of one conversation, so a deletion takes a     *)
(* question and its reply together.                                         *)
LEMMA DeleteKeeps == ASSUME IInv, NEW c \in Convs, DeleteConversation(c) PROVE IInv'
<1> USE DEF IInv
<1>1. /\ turn' = turn /\ UNCHANGED <<created, title, used, met, raced>>
      /\ convs' = convs \ {c} /\ messages' = {m \in messages : m.conv # c}
      /\ left' = left \union InFlight(c) /\ upsets' \in 0..MaxUpsets
  BY ChatTurnAssumption DEF DeleteConversation, MessagesWithout, Upset, TypeInv
<1>2. TypeInv'
  BY <1>1 DEF TypeInv, InFlight
<1>3. PlacesInv'
  BY <1>1, SameWrites DEF PlacesInv
<1>4. BudgetInv' /\ AuthorInv' /\ MetInv' /\ FreshInv' /\ SharedInv' /\ OrderInv' /\ TitleInv'
  BY <1>1 DEF BudgetInv, Allowed, AuthorInv, MetInv, FreshInv, SharedInv, OrderInv,
              TitleInv, UnderWay, At
<1>5. ReplyInv'
  <2> SUFFICES ASSUME NEW m \in messages', m.role = "question",
                      At(m.turn, "close") \/ At(m.turn, "title") \/ turn[m.turn].end = "done"
               PROVE  \E n \in messages' : n.turn = m.turn /\ n.role = "reply"
    BY <1>1 DEF ReplyInv, HasReply, At
  <2>1. PICK n \in messages : n.turn = m.turn /\ n.role = "reply"
    BY <1>1 DEF ReplyInv, HasReply
  <2>2. n.conv = turn[m.turn].conv /\ m.conv = turn[m.turn].conv
    BY <1>1, <2>1 DEF AuthorInv
  <2> QED
    BY <1>1, <2>1, <2>2
<1>6. LeftInv'
  BY <1>1 DEF LeftInv, UnderWay, At, InFlight
<1> QED
  BY <1>2, <1>3, <1>4, <1>5, <1>6

(* A turn is posted: no message is its own yet, and whoever it runs beside     *)
(* it meets.                                                                *)
LEMMA PostKeeps == ASSUME IInv, NEW t \in Turns, NEW c \in Convs, Post(t, c) PROVE IInv'
<1> USE DEF IInv
<1> DEFINE s == [Off EXCEPT !.pc = "gate", !.conv = c]
           beside == {u \in Turns : turn[u].conv = c /\ UnderWay(u)}
<1>1. /\ turn[t].pc = "off" /\ Set(t, s)
      /\ met' = IF beside = {} THEN met ELSE met \union beside \union {t}
      /\ UNCHANGED <<convVars, messages, used, raced, left, upsets>>
  BY DEF Post, At
<1>2. turn'[t] = s /\ \A u \in Turns : u # t => turn'[u] = turn[u]
  BY <1>1 DEF Set, TypeInv
<1>3. /\ s.pc = "gate" /\ s.conv = c /\ s.untitled = FALSE /\ s.say = <<>> /\ s.seq = 0
      /\ s.iter = 0 /\ s.todo = 0 /\ s.over = 0 /\ s.end = "none"
  BY DEF Off
<1>4. s \in Turn
  <2>1. Off \in Turn
    BY ChatTurnAssumption DEF Turn, Off
  <2> QED
    BY <2>1 DEF Turn
<1>5. c # 0
  BY ChatTurnAssumption DEF Convs
<1> HIDE DEF s
<1>6. Local(s)
  BY <1>3, <1>4, <1>5, ChatTurnAssumption DEF Local, Place, Spent, Before, Entry
<1>7. turn' \in [Turns -> Turn]
  BY <1>1, <1>4 DEF Set, TypeInv
<1>8. MayHave(turn[t]) = {} /\ MayHave(turn'[t]) = {}
  BY <1>1, <1>2, <1>3 DEF MayHave, Entry
<1>9. Writes' = Writes
  <2>1. \A u \in Turns : MayHave(turn'[u]) = MayHave(turn[u])
    BY <1>2, <1>8
  <2> QED
    BY <2>1 DEF Writes
<1>10. \A m \in messages : m.turn \in Turns /\ m.turn # t
  BY <1>8 DEF AuthorInv, TypeInv, Message
<1>11. TypeInv'
  BY <1>1, <1>2, <1>6, <1>7 DEF TypeInv, convVars
<1>12. PlacesInv'
  <2>1. turn'[t].seq <= Cardinality(Writes) + 1
    BY <1>2, <1>3, WritesFinite
  <2> QED
    BY <1>1, <1>2, <1>9, <2>1 DEF PlacesInv
<1>13. BudgetInv'
  BY <1>1, <1>2, <1>3 DEF BudgetInv, Allowed
<1>14. AuthorInv' /\ OrderInv'
  BY <1>1, <1>2, <1>10 DEF AuthorInv, OrderInv
<1>15. met \subseteq met'
  BY <1>1
<1>16. MetInv'
  <2> SUFFICES ASSUME NEW u \in Turns, NEW v \in Turns, u # v, UnderWay(u)', UnderWay(v)',
                      turn'[u].conv = turn'[v].conv
               PROVE  {u, v} \subseteq met'
    BY DEF MetInv
  <2>1. CASE u = t \/ v = t
    <3>1. PICK w \in {u, v} : w # t /\ {u, v} = {w, t}
      BY <2>1
    <3>2. w \in beside
      BY <1>2, <1>3, <3>1, <2>1 DEF UnderWay, At
    <3> QED
      BY <1>1, <3>1, <3>2
  <2>2. CASE u # t /\ v # t
    <3>1. UnderWay(u) /\ UnderWay(v) /\ turn[u].conv = turn[v].conv
      BY <1>2, <2>2 DEF UnderWay, At
    <3> QED
      BY <1>15, <3>1 DEF MetInv
  <2> QED
    BY <2>1, <2>2
<1>17. FreshInv'
  BY <1>1, <1>2, <1>3, <1>15 DEF FreshInv, At
<1>18. SharedInv'
  BY <1>1, <1>15 DEF SharedInv
<1>19. ReplyInv'
  BY <1>1, <1>2, <1>10 DEF ReplyInv, HasReply, At
<1>20. LeftInv' /\ TitleInv'
  BY <1>1, <1>2, <1>3 DEF LeftInv, TitleInv, UnderWay, At, convVars
<1> QED
  BY <1>11, <1>12, <1>13, <1>14, <1>16, <1>17, <1>18, <1>19, <1>20

(***************************************************************************)
(* The insertion: the one step that writes.                                 *)
(***************************************************************************)
LEMMA SaidNext ==
  ASSUME NEW r \in Turn, Local(r), r.pc = "insert"
  PROVE  LET role == Head(r.say)  more == Tail(r.say)
             s == [r EXCEPT !.seq = 0, !.say = more,
                     !.pc = IF more # <<>> THEN "read"
                            ELSE IF role = "question" THEN "loop" ELSE "close"]
         IN  /\ Local(s) /\ s.conv = r.conv /\ s.seq = 0 /\ s.over = r.over
             /\ s.untitled = r.untitled /\ s.end = "none"
             /\ s.pc \in {"read", "loop", "close"} /\ (s.pc = "close" => role = "reply")
             /\ role \in Roles \ MayHave(r) /\ MayHave(s) = MayHave(r) \union {role}
             /\ role = "greeting" => MayHave(r) = {}
             /\ role = "question" => MayHave(r) \subseteq {"greeting"}
             /\ MayHave(r) \subseteq {"greeting", "question"}
<1> DEFINE role == Head(r.say)  more == Tail(r.say)
           at == IF more # <<>> THEN "read" ELSE IF role = "question" THEN "loop" ELSE "close"
           s == [r EXCEPT !.seq = 0, !.say = more, !.pc = at]
<1>1. r.say \in {Both, <<"question">>, <<"reply">>} /\ r.end = "none"
  BY DEF Local, Place, Turn
<1>2. \/ r.say = Both /\ role = "greeting" /\ more = <<"question">> /\ at = "read"
      \/ r.say = <<"question">> /\ role = "question" /\ more = <<>> /\ at = "loop"
      \/ r.say = <<"reply">> /\ role = "reply" /\ more = <<>> /\ at = "close"
  BY <1>1, Sayings
<1> HIDE DEF role, more, at
<1>3. at \in {"read", "loop", "close"} /\ more \in {<<>>, <<"question">>}
  BY <1>2
<1>4. /\ s.pc = at /\ s.say = more /\ s.seq = 0 /\ s.conv = r.conv
      /\ s.untitled = r.untitled /\ s.iter = r.iter /\ s.todo = r.todo
      /\ s.over = r.over /\ s.end = r.end /\ s \in Turn
  BY <1>3 DEF Turn
<1> HIDE DEF s
<1>5. Place(s)
  BY <1>1, <1>2, <1>4, Sayings DEF Local, Place
<1>6. Spent(s)
  BY <1>1, <1>2, <1>4, Sayings DEF Local, Spent, Before, Entry
<1>7. MayHave(r) = IF role = "greeting" THEN {} ELSE IF role = "question" THEN {"greeting"}
                   ELSE {"greeting", "question"}
  BY <1>1, <1>2, Sayings DEF MayHave, Entry
<1>8. MayHave(s) = IF role = "greeting" THEN {"greeting"}
                   ELSE IF role = "question" THEN {"greeting", "question"} ELSE Roles
  BY <1>1, <1>2, <1>4, Sayings DEF MayHave, Entry, Asked
<1>9. role \in Roles
  BY <1>2 DEF Roles
<1>10. role \in Roles \ MayHave(r) /\ MayHave(s) = MayHave(r) \union {role}
  BY <1>2, <1>7, <1>8, <1>9 DEF Roles
<1>11. s.pc = "close" => role = "reply"
  BY <1>2, <1>4
<1>12. /\ role = "greeting" => MayHave(r) = {}
       /\ role = "question" => MayHave(r) \subseteq {"greeting"}
       /\ MayHave(r) \subseteq {"greeting", "question"}
  BY <1>7
<1> QED
  BY <1>1, <1>3, <1>4, <1>5, <1>6, <1>10, <1>11, <1>12 DEF Local, role, more, at, s

LEMMA InsertKeeps == ASSUME IInv, NEW t \in Turns, InsertMessage(t) PROVE IInv'
<1> DEFINE r == turn[t]  role == Head(r.say)  more == Tail(r.say)
           new == [conv |-> r.conv, seq |-> r.seq, role |-> role, turn |-> t]
           s == [r EXCEPT !.seq = 0, !.say = more,
                   !.pc = IF more # <<>> THEN "read"
                          ELSE IF role = "question" THEN "loop" ELSE "close"]
<1>1. r \in Turn /\ Local(r) /\ r.pc = "insert" /\ r.conv \in Convs /\ r.seq \in Nat \ {0}
      /\ UnderWay(t) /\ ~ At(t, "gate")
  BY DEF IInv, TypeInv, InsertMessage, At, Local, Place, Turn, UnderWay
<1>2. /\ messages' = messages \union {new} /\ Set(t, s)
      /\ UNCHANGED <<convVars, used, historyVars, upsets>>
  BY DEF InsertMessage
<1>3. turn'[t] = s /\ \A u \in Turns : u # t => turn'[u] = turn[u]
  BY <1>2 DEF Set, IInv, TypeInv
<1>4. /\ Local(s) /\ s.conv = r.conv /\ s.seq = 0 /\ s.over = r.over
      /\ s.untitled = r.untitled /\ s.end = "none"
      /\ s.pc \in {"read", "loop", "close"} /\ (s.pc = "close" => role = "reply")
      /\ role \in Roles \ MayHave(r) /\ MayHave(s) = MayHave(r) \union {role}
      /\ role = "greeting" => MayHave(r) = {}
      /\ role = "question" => MayHave(r) \subseteq {"greeting"}
      /\ MayHave(r) \subseteq {"greeting", "question"}
  BY <1>1, SaidNext
<1>5. new.conv = r.conv /\ new.seq = r.seq /\ new.role = role /\ new.turn = t /\ new \in Message
  BY <1>1, <1>4 DEF Message
<1>6. turn' \in [Turns -> Turn]
  BY <1>2, <1>4 DEF Set, Local, IInv, TypeInv
<1> HIDE DEF s, role, new
<1>7. \A m \in messages : m \in Message /\ m.turn \in Turns
  BY DEF IInv, TypeInv, Message
<1>8. \A u \in Turns : UnderWay(u)' <=> UnderWay(u)
  BY <1>1, <1>3, <1>4 DEF UnderWay, At
<1>9. \A u \in Turns : turn'[u].conv = turn[u].conv
  BY <1>3, <1>4
\* The messages the turn has written before come before the new one.
<1>10. \A m \in messages : m.turn = t =>
          m.seq < r.seq /\ m.conv = r.conv /\ m.role \in MayHave(r)
  <2> SUFFICES ASSUME NEW m \in messages, m.turn = t
               PROVE  m.seq < r.seq /\ m.conv = r.conv /\ m.role \in MayHave(r)
    OBVIOUS
  <2>1. m.conv = r.conv /\ m.role \in MayHave(r)
    BY DEF IInv, AuthorInv
  <2>2. ~ (m.seq >= r.seq)
    BY <1>1, <2>1 DEF IInv, FreshInv, At
  <2>3. m.seq \in Nat
    BY <1>7 DEF Message
  <2> QED
    BY <1>1, <2>1, <2>2, <2>3
<1>11. TypeInv'
  BY <1>2, <1>3, <1>4, <1>5, <1>6 DEF IInv, TypeInv, convVars, historyVars
<1>12. PlacesInv'
  <2>1. Cardinality(Writes) + 1 <= Cardinality(Writes')
    <3>1. <<t, role>> \in Writes' /\ <<t, role>> \notin Writes
      BY <1>3, <1>4 DEF Writes
    <3>2. Writes \in SUBSET (Writes' \ {<<t, role>>})
      BY <1>3, <1>4, <3>1 DEF Writes
    <3>3. IsFiniteSet(Writes')
      BY WritesFiniteNext
    <3>4. /\ IsFiniteSet(Writes' \ {<<t, role>>})
          /\ Cardinality(Writes' \ {<<t, role>>}) = Cardinality(Writes') - 1
      BY <3>1, <3>3, FS_RemoveElement
    <3>5. Cardinality(Writes) <= Cardinality(Writes' \ {<<t, role>>})
      BY <3>2, <3>4, FS_Subset
    <3> QED
      BY <3>4, <3>5, WritesFinite, WritesFiniteNext
  <2>2. Cardinality(Writes) \in Nat /\ Cardinality(Writes') \in Nat
    BY WritesFinite, WritesFiniteNext
  <2>3. \A m \in messages' : m.seq \in Nat /\ m.seq <= Cardinality(Writes) + 1
    <3>1. r.seq <= Cardinality(Writes) + 1
      BY DEF IInv, PlacesInv
    <3>2. \A m \in messages : m.seq \in Nat /\ m.seq <= Cardinality(Writes)
      BY <1>7 DEF IInv, PlacesInv, Message
    <3> QED
      BY <1>1, <1>2, <1>5, <2>2, <3>1, <3>2
  <2>4. \A u \in Turns : turn'[u].seq \in Nat /\ turn'[u].seq <= Cardinality(Writes) + 1
    BY <1>3, <1>4, <2>2, SMTT(30) DEF IInv, PlacesInv, TypeInv, Turn
  <2> QED
    BY <2>1, <2>2, <2>3, <2>4 DEF PlacesInv
<1>13. BudgetInv'
  BY <1>2, <1>3, <1>4 DEF IInv, BudgetInv, Allowed
<1>14. AuthorInv'
  <2>1. \A m \in messages : m.conv = turn'[m.turn].conv /\ m.role \in MayHave(turn'[m.turn])
    BY <1>3, <1>4, <1>7 DEF IInv, AuthorInv
  <2> QED
    BY <1>2, <1>3, <1>4, <1>5, <2>1 DEF AuthorInv
<1>15. MetInv'
  BY <1>2, <1>8, <1>9 DEF IInv, MetInv, historyVars
<1>16. FreshInv'
  <2> SUFFICES ASSUME NEW u \in Turns, At(u, "insert")', NEW m \in messages',
                      m.conv = turn'[u].conv, m.seq >= turn'[u].seq
               PROVE  m.turn # u /\ {m.turn, u} \subseteq met
    BY <1>2 DEF FreshInv, historyVars
  <2>1. u # t /\ turn'[u] = turn[u]
    BY <1>3, <1>4 DEF At
  <2>2. CASE m \in messages
    BY <2>1, <2>2 DEF IInv, FreshInv, At
  <2>3. CASE m = new
    <3>1. UnderWay(u) /\ turn[u].conv = turn[t].conv
      BY <1>5, <2>1, <2>3 DEF UnderWay, At
    <3> QED
      BY <1>1, <1>5, <2>1, <2>3, <3>1 DEF IInv, MetInv
  <2> QED
    BY <1>2, <2>2, <2>3
<1>17. SharedInv'
  <2>1. ASSUME NEW m \in messages, m.conv = new.conv, m.seq = new.seq
        PROVE  m.turn # t /\ {m.turn, t} \subseteq met
    <3>1. m.conv = turn[t].conv /\ m.seq >= turn[t].seq
      BY <1>1, <1>5, <2>1
    <3> QED
      BY <1>1, <3>1 DEF IInv, FreshInv, At
  <2> SUFFICES ASSUME NEW m \in messages', NEW n \in messages', m.conv = n.conv,
                      m.seq = n.seq, m # n
               PROVE  m.turn # n.turn /\ {m.turn, n.turn} \subseteq met
    BY <1>2 DEF SharedInv, historyVars
  <2>2. CASE m \in messages /\ n \in messages
    BY <2>2 DEF IInv, SharedInv
  <2>3. CASE m = new /\ n \in messages
    BY <1>5, <2>1, <2>3
  <2>4. CASE m \in messages /\ n = new
    BY <1>5, <2>1, <2>4
  <2> QED
    BY <1>2, <2>2, <2>3, <2>4
<1>18. OrderInv'
  <2> SUFFICES ASSUME NEW m \in messages', NEW n \in messages', m.turn = n.turn,
                      m.role \in {"greeting", "question"}, n.role \in {"question", "reply"},
                      m.role # n.role
               PROVE  m.seq < n.seq
    BY DEF OrderInv
  <2>1. CASE m \in messages /\ n \in messages
    BY <2>1 DEF IInv, OrderInv
  <2>2. CASE m \in messages /\ n = new
    BY <1>5, <1>10, <2>2
  <2>3. CASE m = new /\ n \in messages
    <3>1. n.role \in MayHave(r)
      BY <1>5, <1>10, <2>3
    <3> QED
      BY <1>4, <1>5, <2>3, <3>1
  <2>4. CASE m = new /\ n = new
    BY <2>4
  <2> QED
    BY <1>2, <2>1, <2>2, <2>3, <2>4
<1>19. ReplyInv'
  <2> SUFFICES ASSUME NEW m \in messages', m.role = "question",
                      At(m.turn, "close")' \/ At(m.turn, "title")' \/ turn'[m.turn].end = "done"
               PROVE  \E n \in messages' : n.turn = m.turn /\ n.role = "reply"
    BY DEF ReplyInv, HasReply
  <2>1. CASE m.turn = t
    <3>1. role = "reply"
      BY <1>3, <1>4, <2>1 DEF At
    <3> QED
      BY <1>2, <1>5, <2>1, <3>1
  <2>2. CASE m.turn # t
    <3>1. m \in messages /\ turn'[m.turn] = turn[m.turn]
      BY <1>2, <1>3, <1>5, <1>7, <2>2
    <3>2. HasReply(m.turn)
      BY <3>1 DEF IInv, ReplyInv, At
    <3> QED
      BY <1>2, <3>2 DEF HasReply
  <2> QED
    BY <2>1, <2>2
<1>20. LeftInv'
  <2>1. \A u \in Turns : ~ At(u, "gate")' => ~ At(u, "gate")
    BY <1>1, <1>3 DEF At
  <2>2. \A u \in Turns : UnderWay(u)' /\ ~ At(u, "gate")' /\ turn'[u].conv \notin convs => u \in left
    BY <1>8, <1>9, <2>1 DEF IInv, LeftInv
  <2>3. \A m \in messages' : m.conv \notin convs => m.turn \in left
    BY <1>1, <1>2, <1>5 DEF IInv, LeftInv
  <2> QED
    BY <1>2, <2>2, <2>3 DEF LeftInv, convVars, historyVars
<1>21. TitleInv'
  <2>1. \A u \in Turns : /\ ~ At(u, "gate")' => ~ At(u, "gate")
                         /\ turn'[u].untitled = turn[u].untitled
    BY <1>1, <1>3, <1>4 DEF At
  <2> QED
    BY <1>2, <1>8, <1>9, <2>1 DEF IInv, TitleInv, convVars, historyVars
<1> QED
  BY <1>11, <1>12, <1>13, <1>14, <1>15, <1>16, <1>17, <1>18, <1>19, <1>20, <1>21 DEF IInv

LEMMA InitInv == ASSUME Init PROVE IInv
<1>1. Off \in Turn
  BY ChatTurnAssumption DEF Turn, Off
<1>2. Local(Off)
  BY <1>1, ChatTurnAssumption DEF Local, Place, Spent, Before, Entry, Off
<1>3. TypeInv
  BY <1>1, <1>2, ChatTurnAssumption DEF Init, TypeInv
<1>4. PlacesInv
  BY WritesFinite DEF Init, PlacesInv, Off
<1>5. BudgetInv
  BY DEF Init, BudgetInv, Off
<1>6. AuthorInv /\ FreshInv /\ SharedInv /\ OrderInv /\ ReplyInv
  BY DEF Init, AuthorInv, FreshInv, SharedInv, OrderInv, ReplyInv, At, Off
<1>7. MetInv /\ LeftInv /\ TitleInv
  BY DEF Init, MetInv, LeftInv, TitleInv, UnderWay, At, Off
<1> QED
  BY <1>3, <1>4, <1>5, <1>6, <1>7 DEF IInv

LEMMA NextInv == ASSUME IInv, [Next]_vars PROVE IInv'
<1>1. CASE CreateConversation
  BY <1>1, CreateKeeps
<1>2. ASSUME NEW c \in Convs, RenameConversation(c) \/ DeleteConversation(c) PROVE IInv'
  BY <1>2, RenameKeeps, DeleteKeeps
<1>3. ASSUME NEW t \in Turns, NEW c \in Convs, Post(t, c) PROVE IInv'
  BY <1>3, PostKeeps
<1>4. ASSUME NEW t \in Turns, Step(t) \/ Cut(t) PROVE IInv'
  BY <1>4, StepKeeps, InsertKeeps DEF Step, Write
<1>5. CASE Restart \/ RollOff \/ BackgroundSpends
  BY <1>5, RestartKeeps, RollOffKeeps, BackgroundKeeps
<1>6. CASE UNCHANGED vars
  BY <1>6, StutterKeeps
<1> QED
  BY <1>1, <1>2, <1>3, <1>4, <1>5, <1>6 DEF Next

LEMMA Invariant == Spec => []IInv
<1>1. Init => IInv
  BY InitInv
<1>2. IInv /\ [Next]_vars => IInv'
  BY NextInv
<1> QED
  BY <1>1, <1>2, PTL DEF Spec

-----------------------------------------------------------------------------
(* A turn that is about to insert has left a write to make.                  *)
LEMMA TypesFollow == IInv => TypeOK
<1> SUFFICES ASSUME IInv PROVE TypeOK
  OBVIOUS
<1>1. MaxTurns \in Nat /\ Cardinality(Writes) \in Nat /\ Cardinality(Writes) <= 3 * MaxTurns
  BY WritesFinite, ChatTurnAssumption
<1>2. messages \subseteq [conv : Convs, seq : 1..(3 * MaxTurns), role : Roles, turn : Turns]
  <2>1. ASSUME NEW m \in messages PROVE m.seq \in 1..(3 * MaxTurns) /\ m \in Message
    BY <1>1 DEF IInv, TypeInv, PlacesInv, Message
  <2> QED
    BY <2>1 DEF Message
<1>3. ASSUME NEW t \in Turns PROVE turn[t].seq \in 0..(3 * MaxTurns)
  <2>1. Local(turn[t]) /\ turn[t].seq \in Nat /\ turn[t].seq <= Cardinality(Writes) + 1
    BY DEF IInv, TypeInv, PlacesInv, Turn
  <2>2. CASE turn[t].pc = "insert"
    <3>1. MayHave(turn[t]) \subseteq {"greeting", "question"}
      BY <2>1, <2>2, SaidNext DEF Local
    <3>2. <<t, "reply">> \notin Writes /\ Writes \in SUBSET (Turns \X Roles)
      BY <3>1 DEF Writes
    <3>3. Writes \in SUBSET ((Turns \X Roles) \ {<<t, "reply">>})
      BY <3>2
    <3>4. <<t, "reply">> \in Turns \X Roles
      BY DEF Roles
    <3>5. /\ IsFiniteSet((Turns \X Roles) \ {<<t, "reply">>})
          /\ Cardinality((Turns \X Roles) \ {<<t, "reply">>}) = 3 * MaxTurns - 1
      BY <3>4, WritesBound, FS_RemoveElement
    <3>6. Cardinality(Writes) <= 3 * MaxTurns - 1
      BY <3>3, <3>5, FS_Subset
    <3> QED
      BY <1>1, <2>1, <3>6
  <2>3. CASE turn[t].pc # "insert"
    BY <1>1, <2>1, <2>3 DEF Local, Place
  <2> QED
    BY <2>2, <2>3
<1>4. turn \in [Turns -> [pc : {"off", "gate", "budget", "thread", "others", "read", "insert",
                               "loop", "call", "tool", "run", "close", "title", "ended"},
                          conv : Convs \union {0}, untitled : BOOLEAN,
                          say : {<<>>, <<"greeting", "question">>, <<"question">>,
                                 <<"reply">>},
                          seq : 0..(3 * MaxTurns), iter : 0..MaxIterations,
                          todo : 0..MaxBlocks, over : Nat,
                          end : {"none", "refused", "model", "done", "cut", "broken"}]]
  BY <1>3 DEF IInv, TypeInv, Turn, Both
<1> QED
  BY <1>2, <1>4 DEF TypeOK, IInv, TypeInv, Roles

LEMMA ThreadFollows == IInv => ThreadSound
<1> SUFFICES ASSUME IInv PROVE ThreadSound
  OBVIOUS
<1>1. \A m \in messages : m \in Message /\ m.turn \in Turns
  BY DEF IInv, TypeInv, Message
<1>2. ASSUME NEW t \in Turns, NEW s \in Seqs(t, "question")
      PROVE  /\ \A g \in Seqs(t, "greeting") : g < s
             /\ \A p \in Seqs(t, "reply") : s < p
  BY DEF Seqs, IInv, OrderInv
<1>3. ASSUME NEW t \in Turns, At(t, "ended"), Seqs(t, "question") # {}, Seqs(t, "reply") = {}
      PROVE  turn[t].end \in {"model", "cut"}
  <2>1. PICK m \in messages : m.turn = t /\ m.role = "question"
    BY <1>3 DEF Seqs
  <2>2. ~ HasReply(t)
    BY <1>3 DEF Seqs, HasReply
  <2>3. turn[t].end \in {"refused", "model", "done", "cut"}
    BY <1>3 DEF IInv, TypeInv, Local, Place, At
  <2>4. turn[t].end # "refused"
    BY <2>1 DEF IInv, AuthorInv, MayHave, Entry
  <2>5. turn[t].end # "done"
    BY <2>1, <2>2 DEF IInv, ReplyInv
  <2> QED
    BY <2>3, <2>4, <2>5
<1>4. \A m \in messages : m.conv \notin convs => m.turn \in left
  BY DEF IInv, LeftInv
<1> QED
  BY <1>2, <1>3, <1>4 DEF ThreadSound, IInv, SharedInv

LEMMA BudgetFollows == IInv => BudgetStops
<1>1. ASSUME IInv, NEW t \in Turns PROVE turn[t].over <= 1 + 2 * MaxBlocks + 1
  <2>1. turn[t].over \in Nat /\ turn[t].over <= 2 + 2 * MaxBlocks
    BY <1>1 DEF IInv, TypeInv, Local, Spent, Turn
  <2> QED
    BY <2>1, ChatTurnAssumption
<1> QED
  BY <1>1 DEF BudgetStops

(* Only the last step of a turn can take a title the user has given.         *)
LEMMA TitleStep ==
  ASSUME IInv, [Next]_vars, NEW c \in Convs, title[c] = "chosen", title'[c] # "chosen"
  PROVE  \E t \in raced : turn[t].conv = c /\ At(t, "title")
<1>1. title' # title
  OBVIOUS
<1>2. ASSUME NEW d \in Convs, RenameConversation(d) PROVE FALSE
  BY <1>2 DEF RenameConversation, IInv, TypeInv
<1>3. ~ UNCHANGED vars
  BY <1>1 DEF vars, convVars
<1>4. ASSUME NEW t \in Turns, NEW d \in Convs, Post(t, d) PROVE FALSE
  BY <1>1, <1>4 DEF Post, convVars
<1>5. ASSUME NEW d \in Convs, DeleteConversation(d) PROVE FALSE
  BY <1>1, <1>5 DEF DeleteConversation
<1>6. ~ CreateConversation /\ ~ Restart /\ ~ RollOff /\ ~ BackgroundSpends
  BY <1>1 DEF CreateConversation, Restart, RollOff, BackgroundSpends, convVars
<1>7. PICK t \in Turns : Step(t) \/ Cut(t)
  BY <1>2, <1>3, <1>4, <1>5, <1>6 DEF Next
<1>8. ~ Enter(t) /\ ~ Write(t) /\ ~ Model(t) /\ ~ Close(t) /\ ~ Cut(t)
  BY <1>1 DEF Enter, Gate, GateBudget, LookThread, LookOthers, Write, ReadSeq, InsertMessage, Model, LoopHead, ModelFails, CallModel,
              Close, Cut, convVars
<1>9. ~ Tool(t)
  BY <1>1 DEF Tool, LookTool, SummarizeTool, CommitTool, GateTool, StartRun, ToolFails, convVars
<1>10. SetTitle(t)
  BY <1>7, <1>8, <1>9 DEF Step, Finish
<1>11. At(t, "title") /\ turn[t].conv = c
  BY <1>10 DEF SetTitle, IInv, TypeInv
<1>12. UnderWay(t) /\ ~ At(t, "gate") /\ turn[t].untitled /\ turn[t].conv # 0
  BY <1>11 DEF UnderWay, At, IInv, TypeInv, Local, Place
<1>13. t \in raced
  BY <1>11, <1>12 DEF IInv, TitleInv
<1> QED
  BY <1>11, <1>13

(***************************************************************************)
(* Type correctness.  No position is beyond the three messages each turn    *)
(* can write, however conversations are deleted and turns overlap.          *)
(***************************************************************************)
THEOREM TypeCorrect == Spec => []TypeOK
BY Invariant, TypesFollow, PTL

(***************************************************************************)
(* A thread reads as it was held (append_message, run_chat_turn): messages   *)
(* share a place only if their turns ran side by side, a turn's own messages *)
(* stand in the order they were said, a question is left without its reply   *)
(* only by a failed model call or a closed stream, and of a deleted          *)
(* conversation nothing is left but what turns under way then wrote.         *)
(***************************************************************************)
THEOREM ThreadsSound == Spec => []ThreadSound
BY Invariant, ThreadFollows, PTL

(***************************************************************************)
(* The budget stops a turn (run_chat_turn, budget_status): beyond it a turn   *)
(* makes at most the call it was about to make, the tool calls of that       *)
(* answer and the title, whatever else spends the same budget.               *)
(***************************************************************************)
THEOREM BudgetHolds == Spec => []BudgetStops
BY Invariant, BudgetFollows, PTL

(***************************************************************************)
(* A title the user has given is overwritten only by a turn that was under    *)
(* way when it was given (update_conversation, run_chat_turn).               *)
(***************************************************************************)
THEOREM TitlesKept == Spec => TitleKept
<1> DEFINE Kept == \A c \in Convs :
             title[c] = "chosen" /\ title'[c] # "chosen" =>
               \E t \in raced : turn[t].conv = c /\ At(t, "title")
<1>1. IInv /\ [Next]_vars => [Kept]_vars
  BY TitleStep
<1> HIDE DEF Kept
<1>2. Spec => [][Kept]_vars
  BY <1>1, Invariant, PTL DEF Spec
<1> QED
  BY <1>2 DEF TitleKept, Kept
=============================================================================
