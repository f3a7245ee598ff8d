---------------------------- MODULE MCDecodePool ----------------------------
(* The desktop client's pool on its own: two workers, three photos. *)
EXTENDS DecodePool

=============================================================================
