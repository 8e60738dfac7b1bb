CONSTANTS
  Thread = {t1, t2, t3, t4, t5}
  Orig = 1
  MaxCredit = 3
SPECIFICATION Spec
SYMMETRY Symmetry
INVARIANTS TypeOK EveryWaiterCounted NoOverAdmission TimeoutsLeaveNoTrace
CHECK_DEADLOCK FALSE
