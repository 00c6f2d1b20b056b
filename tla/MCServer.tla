---- MODULE MCServer ----
(* Two connections and two signals. *)
EXTENDS Server
====
