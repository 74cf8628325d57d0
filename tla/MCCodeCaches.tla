---------------------------- MODULE MCCodeCaches ----------------------------
(* One script and one module, so that both workers meet on both; two          *)
(* different things the file of either can be compiled to.                    *)
EXTENDS CodeCaches
=============================================================================
