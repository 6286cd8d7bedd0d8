\* Two topics' worth of interference is not needed for the mailbox
\* properties: three calls race on one topic with two subscribers.
CONSTANTS
  Topics = {t1}
  SubIds = {s1, s2}
  Handlers = {h1, h2, h3}
  NoOne = NoOne
  Window = 1
  MaxPublishes = 3
SPECIFICATION Spec
INVARIANTS
  TypeOK
  LoopsAreSafe
  MailboxIsBacklog
  HandedOutOnceInOrder
PROPERTIES
  OnlyFailedSendLeaks
  DrainsEverything
  SubscriptionsPersist
  ImplementsPubSub
SYMMETRY Symmetry
\* The process may die (a Consume for a removed subscriber) or every call may
\* wait for a lock nobody will release.
CHECK_DEADLOCK FALSE
