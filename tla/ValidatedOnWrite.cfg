CONSTANTS
  t1 = t1
  t2 = t2
  t3 = t3
  backend = backend
  script = script
  c1 = c1
  c2 = c2
  submitted = submitted
  edited = edited
  officer = officer
  anonymous = anonymous
  a1 = a1
  Thread <- MCThread
  Key <- MCProcess
  Process <- MCProcess
  KeyOf <- MCKeyOf
  ProcessOf <- MCProcessOf
  Case = {c1, c2}
  EventType = {submitted}
  UnknownType = edited
  TypedActor = {officer}
  UntypedActor = {anonymous}
  Content <- MCContent
  Artifact = {a1}
  Genesis = Genesis
  None = None
  MaxRequests = 3
  MaxCrashes = 1
SPECIFICATION Spec
INVARIANT ValidatedOnWrite

