----------------------------- MODULE MCSnowflake -----------------------------
(* Instances of Snowflake for TLC: two generators, two sequence numbers. *)
EXTENDS Snowflake

TwoNodes == {0, 1}
OneNode == {1}
=============================================================================
