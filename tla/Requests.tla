------------------------------- MODULE Requests -------------------------------
(* The identities shared by the sidecar and the plugin: one request_id, a  *)
(* fresh UUID, per call of IpcAdapter::call.                               *)
CONSTANTS
  Request,     \* request ids
  NoRequest    \* "no request"; as a frame, bytes that are not a whole frame

ASSUME RequestAssumption == NoRequest \notin Request
=============================================================================
