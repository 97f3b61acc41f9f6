--------------------------- MODULE MCQueryService ---------------------------
(* QueryService for TLC: one column of each way a type is found.           *)
EXTENDS QueryService

AskedColumns ==
  {[driver |-> "NullInt64", name |-> "INTEGER"], [driver |-> "nil", name |-> "TEXT"],
   [driver |-> "nil", name |-> "REAL"], [driver |-> "nil", name |-> ""]}
=============================================================================
