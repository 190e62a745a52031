------------------------- MODULE MCAdmissionFanout --------------------------
(* Small instances of AdmissionFanout.                                     *)
EXTENDS AdmissionFanout

Reply(error, streams, bps) == [error |-> error, streams |-> streams, bps |-> bps]

(* A server error, no stream, some streams, all of them with and without a *)
(* receiver summary.                                                       *)
MCReplies == {Reply(TRUE, 2, None), Reply(FALSE, 0, None), Reply(FALSE, 1, 5),
              Reply(FALSE, 2, 5), Reply(FALSE, 2, None)}
FullReplies == {Reply(FALSE, 2, 5)}
=============================================================================
