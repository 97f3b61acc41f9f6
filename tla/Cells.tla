------------------------------- MODULE Cells --------------------------------
(***************************************************************************)
(* How QuerySQL of internal/server/control.go turns a column of a row into *)
(* a cell of the answer: the type it scans into, and the cell for each     *)
(* scanned type.  Integers have their widths: Narrow stands for 2^31, Wide *)
(* for 2^63 and Second for 10^9, for TLC scaled down.  A string or a byte  *)
(* array is a number, 0 the empty one; a floating-point number is counted  *)
(* in tenths of the last of the digits that %f prints.                     *)
(***************************************************************************)
EXTENDS Integers

CONSTANTS
  Narrow, Wide,  \* half as many as a 32-bit and a 64-bit integer has values
  Second,        \* nanoseconds in a second
  MaxContent,    \* bound: strings, byte arrays and floating-point numbers
  Null

ASSUME CellsAssumption ==
  /\ Narrow \in Nat \ {0} /\ Wide \in Nat /\ Narrow < Wide
  /\ Second \in 1..Narrow /\ MaxContent \in Nat /\ Null \notin Int

\* The integers of a type with 2 * h values.
Signed(h) == -h..(h - 1)
Unsigned(h) == 0..(2 * h - 1)

\* int32(v), int64(v)
Wrap(v, h) == LET m == v % (2 * h) IN IF m < h THEN m ELSE m - 2 * h

I64 == {"int", "uint", "uint64", "int64", "NullInt64"}
I32 == {"int8", "int16", "int32", "uint8", "uint16", "uint32"}
Bool == {"bool", "NullBool"}
Text == {"string", "NullString", "RawBytes"}
Time == {"Time", "NullTime"}
Float == {"float64", "NullFloat64"}
ScanType == I64 \cup I32 \cup Bool \cup Text \cup Time \cup Float \cup {"[]byte"}

\* The types that hold an SQL NULL; scanning one into another is an error.
Nullable == {"NullInt64", "NullBool", "NullString", "RawBytes", "NullTime",
             "NullFloat64", "[]byte"}

\* The type a column is scanned into: the driver's, or, when the driver has
\* none, one chosen by the name of the database's type.
ScanTypeOf(driver, name) ==
  IF driver # "nil" THEN driver
  ELSE CASE name \in {"INTEGER", "INT"} -> "int"
         [] name = "REAL" -> "float64"
         [] name = "TEXT" -> "string"
         [] name = "BLOB" -> "[]byte"
         [] OTHER -> "nil"

\* Mutant of CellOf: every integer goes into a 32-bit cell.
CellNarrow(t, v) ==
  [kind |-> "i32", val |-> Wrap(v, Narrow), nanos |-> 0]

\* The cell for value v scanned into type t; "float64" has none.
CellOf(t, v) ==
  LET cell(k, x) == [kind |-> k, val |-> x, nanos |-> 0]
  IN IF t # "[]byte" /\ (v = Null \/ (t = "RawBytes" /\ v = 0))
     THEN cell("none", 0)
     ELSE CASE t \in I64 -> cell("i64", Wrap(v, Wide))
            [] t \in I32 -> cell("i32", Wrap(v, Narrow))
            [] t \in Bool -> cell("b", v)
            [] t \in Text -> cell("str", v)
            [] t = "[]byte" -> cell("by", IF v = Null THEN 0 ELSE v)
            [] t = "NullFloat64" -> cell("by", (v + 5) \div 10)
            [] t \in Time ->
                 [kind |-> "ts", val |-> v \div Second, nanos |-> Wrap(v, Narrow)]

-----------------------------------------------------------------------------
(* What a client makes of a cell, and of which values it can.              *)

\* The values a column of type t holds.
Stored(t) ==
  (IF t \in Nullable THEN {Null} ELSE {}) \cup
  CASE t \in {"int", "int64", "NullInt64"} \cup Time -> Signed(Wide)
    [] t \in {"uint", "uint64"} -> Unsigned(Wide)
    [] t = "int32" -> Signed(Narrow)
    [] t = "uint32" -> Unsigned(Narrow)
    [] t \in {"int8", "int16"} -> Signed(Narrow \div 2)
    [] t \in {"uint8", "uint16"} -> Unsigned(Narrow \div 2)
    [] t \in Bool -> 0..1
    [] t \in Text \cup Float \cup {"[]byte"} -> 0..MaxContent

ReadCell(t, c) ==
  CASE c.kind = "none" -> Null
    [] c.kind = "ts" -> c.val * Second + c.nanos
    [] c.kind = "by" /\ t = "NullFloat64" -> c.val * 10
    [] OTHER -> c.val

\* The values that reach the client as they are.
Exact(t, v) ==
  IF v = Null THEN t # "[]byte"
  ELSE CASE t \in I64 -> v \in Signed(Wide)
         [] t \in I32 -> v \in Signed(Narrow)
         [] t \in Time -> v \in 0..(Second - 1)
         [] t = "RawBytes" -> v # 0
         [] t = "NullFloat64" -> v % 10 = 0
         [] OTHER -> TRUE

\* A cell QuerySQL (control.go) sends tells the client the value in the
\* database for exactly these: signed and small unsigned integers, Booleans
\* and strings, but not the upper half of uint64 and uint32, an empty
\* RawBytes, a NULL byte array, or digits beyond %f's.  Of times only the first
\* second of 1970 is sure to arrive: the nanoseconds are the whole UnixNano cut
\* to 32 bits, right for later times by chance only.
CellsKept ==
  \A t \in ScanType \ {"float64"} : \A v \in Stored(t) :
    LET kept == ReadCell(t, CellOf(t, v)) = v
    IN (Exact(t, v) => kept) /\ (kept => Exact(t, v) \/ t \in Time)
=============================================================================
