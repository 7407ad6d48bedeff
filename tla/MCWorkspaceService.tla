------------------------- MODULE MCWorkspaceService -------------------------
(* Instances of WorkspaceService for TLC. *)
EXTENDS WorkspaceService

\* The extreme that leaves most to systemd: every child in a session of its own.
ProxyAlone == {Proxy}

=============================================================================
