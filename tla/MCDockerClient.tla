--------------------------- MODULE MCDockerClient ---------------------------
(* Two requests of one client: an authenticated GET, an upload with a body
   and a second scope, and the download of an external blob. *)
EXTENDS DockerClient

K(auth, external, stream, ex) == [auth |-> auth, external |-> external, stream |-> stream, extra |-> ex]

MCKinds == {K(TRUE, FALSE, FALSE, NoScope), K(TRUE, FALSE, TRUE, "mount"), K(TRUE, TRUE, FALSE, NoScope)}
=============================================================================
