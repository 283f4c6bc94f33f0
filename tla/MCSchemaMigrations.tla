-------------------------- MODULE MCSchemaMigrations --------------------------
(* Instance of SchemaMigrations for TLC: every release, with its crashes. *)
EXTENDS SchemaMigrations
=============================================================================
