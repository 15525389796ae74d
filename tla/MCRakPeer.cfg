\* Two threads receive from one peer; of the four packets that arrive, any
\* may come from an address the binding cannot represent.
SPECIFICATION Spec
CONSTANTS
  t1 = t1
  t2 = t2
  Thread = {t1, t2}
  Family = {"AF_INET", "AF_INET6"}
  MaxPackets = 4
INVARIANT TypeOK
INVARIANT HeapExact
INVARIANT IInv
PROPERTY ImplementsMailbox
CHECK_DEADLOCK FALSE
