SPECIFICATION Spec
CONSTANTS
  boss = boss
  ann = ann
  t1 = t1
  t2 = t2
  NoUser = NoUser
  Users = {ann, boss}
  AdminEmails = {boss}
  Threads = {t1, t2}
  MaxAccounts = 1
  MaxSessions = 3
SYMMETRY Symmetry
INVARIANTS TypeOK ForcedLogoutIsFinal ChainSound LogoutIsFinal
PROPERTY OwnerOutOfReach
