------------------------------ MODULE Connections ------------------------------
(***************************************************************************)
(* The connections of RealtimeGateway, which Presence and Typing both      *)
(* follow: a socket is authenticated once, as one user, and never reused.  *)
(***************************************************************************)
CONSTANTS
    User,
    Socket,         \* bound: the connections ever made
    UserOf          \* UserOf[s]: the user a socket was authenticated as

VARIABLE
    link            \* per socket: "new", "connected" or "gone"
=============================================================================
