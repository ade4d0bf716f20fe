SPECIFICATION Spec
CONSTANTS
  None = none
  Mailbox = {m1, m2}
  Handler = {h1, h2}
  Token = {t1, t2, t3}
SYMMETRY Symmetry
CHECK_DEADLOCK FALSE
INVARIANTS TypeOK ManagedByAnAdmin TokenIsKnown AdminsStayActive ContactsAreListed
PROPERTIES ImplementsTheDirectory ManagedNeverPromoted DisabledComesBackOnlyBy
