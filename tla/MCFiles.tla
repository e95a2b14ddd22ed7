------------------------------ MODULE MCFiles ------------------------------
(***************************************************************************)
(* Model-checking instance: a local and an anonymous session on one tree.  *)
(***************************************************************************)
EXTENDS Files

Local == "local"
Anon == "anon"
MCSessions == {Local, Anon}
MCAnon == {Anon}
MCMaxCommands == [s \in MCSessions |-> IF s = Anon THEN 1 ELSE 2]
MCArgs == {[tilde |-> FALSE, name |-> n] : n \in {"f", "d", "denied"}}
          \cup {[tilde |-> TRUE, name |-> "f"]}

Plainly == [lock_upload_files |-> TRUE, delete_failed_uploads |-> FALSE, no_log_lock |-> FALSE,
            anon_other_write_enable |-> FALSE, anon_world_readable_only |-> TRUE,
            chown_uploads |-> FALSE]
MCConfigs == {Plainly,
              [Plainly EXCEPT !.delete_failed_uploads = TRUE, !.anon_other_write_enable = TRUE],
              [Plainly EXCEPT !.lock_upload_files = FALSE, !.no_log_lock = TRUE, !.chown_uploads = TRUE]}
============================================================================
