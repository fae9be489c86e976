------------------------ MODULE MCMessageQueueBroker ------------------------
(* One or two workers on a topic with two messages, beside one with one.   *)
EXTENDS MessageQueueBroker, TLC

CONSTANTS a, b, x, y

TwoTopics == {<<a>>, <<b>>}
OneWorker == {<<x>>}
TwoWorkers == {<<x>>, <<y>>}
TwoAndOne == [t \in Topics |-> IF t = <<a>> THEN 2 ELSE 1]
WorkerSymmetry == Permutations({x, y})
=============================================================================
