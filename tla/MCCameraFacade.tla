--------------------------- MODULE MCCameraFacade ---------------------------
(* Three threads on one camera: the owner, a worker and the capture thread.   *)
EXTENDS CameraFacade, TLC

CONSTANTS owner, worker, loop

MCCallers == {owner, worker, loop}

\* Disciplined use: the owner calls everything, the worker may create and stop,
\* the callback adjusts the exposure.
MCDisciplinedOps ==
    owner :> {"create", "start", "stop", "destroy", "setExposureLevel", "setPreview"}
    @@ worker :> {"create", "stop"}
    @@ loop :> {"setExposureLevel"}

\* The worker adjusts the exposure while the owner may destroy.
MCSharedOps ==
    owner :> {"destroy"} @@ worker :> {"setAutoExposure"} @@ loop :> {}
=============================================================================
