------------------------------- MODULE Builtins -------------------------------
(***************************************************************************)
(* The parts of Standalone and one more that keeps nothing of the others:  *)
(* the builtins of JSON, which read what they write by recursion over it.  *)
(***************************************************************************)
EXTENDS Standalone

\* Of the JSON documents.
CONSTANTS Canon, Subscript, Overflow, Documents, Paths, JsonValues, MaxSymbols

VARIABLES doc, setting

builtinVars == <<vars, doc, setting>>

J == INSTANCE JsonDocument WITH Operands <- JsonValues

NoDocument == doc = None /\ setting = None

BuiltinInit ==
  \/ Init /\ NoDocument
  \/ owner = "json" /\ J!Init /\ Absent({"val"})

JsonStep ==
  /\ owner = "json" /\ J!Next
  /\ UNCHANGED <<owner, call, saturates, limit, answer, name, arg, isEnabled, table,
                 request, column, args, text, serial, address>>

BuiltinNext == \/ Next /\ UNCHANGED <<doc, setting>>
               \/ JsonStep

BuiltinSpec == BuiltinInit /\ [][BuiltinNext]_builtinVars

-----------------------------------------------------------------------------

\* JSONSET changes the place it names and no other (setPath).
JsonSetIsLocal == J!JsonSetIsLocal
=============================================================================
