------------------------------ MODULE MCNotify ------------------------------
(* Small instances of Notify: three requests, spread over two processes.    *)
EXTENDS Notify, TLC

CONSTANTS h1, h2, h3, w1, w2

MCWorkerOf == [h \in {h1, h2, h3} |-> IF h = h3 THEN w2 ELSE w1]

=============================================================================
