--------------------------- MODULE MCBlockingQueue ---------------------------
(* Two producers and two consumers, and a thread that clears the queue and  *)
(* moves its marks.  What each may call is the bound of a run.              *)
EXTENDS BlockingQueue, TLC

CONSTANTS p1, p2, c1, c2, s

None == [op \in Ops |-> 0]
Of(op, n) == op :> n @@ None

(* Producers and consumers that block, try and try for a while, and a       *)
(* thread that clears the queue and moves max and min.                      *)
AllQuota == [t \in Threads |->
  CASE t = p1 -> Of("push", 2)
    [] t = p2 -> [op \in Ops |-> IF op \in {"tryPush", "tryPushFor"} THEN 1 ELSE 0]
    [] t = c1 -> Of("pop", 2)
    [] t = c2 -> [op \in Ops |-> IF op \in {"tryPop", "tryPopFor"} THEN 1 ELSE 0]
    [] OTHER -> [op \in Ops |-> IF op \in {"clear", "setMax", "setMin"} THEN 1 ELSE 0]]

(* Enough blocking calls for both producers to sleep on a queue of three.   *)
BlockingQuota == [t \in Threads |->
  CASE t = p1 -> Of("push", 3)
    [] t = p2 -> Of("push", 2)
    [] t = c1 -> Of("pop", 3)
    [] t = c2 -> Of("pop", 2)
    [] OTHER -> [op \in Ops |-> IF op \in {"clear", "setWakePush", "setWaitForMin"}
                                  THEN 1 ELSE 0]]

Setting(max, min, wake, wait) == [max |-> max, min |-> min, wake |-> wake, wait |-> wait]

(* wake_push_ is max_ unless it is set.                                     *)
AllSettings == {Setting(1, 0, 1, TRUE)}
BlockingSettings == {Setting(1, 0, 1, TRUE), Setting(2, 0, 2, TRUE), Setting(2, 1, 2, TRUE),
                     Setting(2, 1, 2, FALSE), Setting(3, 0, 1, TRUE), Setting(3, 1, 2, TRUE)}
Limit == {2}
=============================================================================
