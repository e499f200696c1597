CONSTANTS
  u = u  h = h
  Threads = {t1, t2, t3}
  Keys = {u, h}
  Kinds <- MixedKinds
  Nums = {1, 2}
  SentMax = 2
SPECIFICATION Spec
INVARIANTS DeliveredInOrder TriggersAreCovered
PROPERTIES ReadyIsDelivered
