----------------------------- MODULE EventStream -----------------------------
(***************************************************************************)
(* The event connection's framing (cli/jprq/events.go): a frame is a 16-bit *)
(* length and a gob message.  Gob leaves fields with a zero value out, and  *)
(* decodes into the struct it is given without clearing it.                 *)
(*                                                                          *)
(* An event is a record.  Of the length of its encoding only one thing      *)
(* matters, whether it fits the two bytes: it is counted in units of which  *)
(* Width do not fit any more.                                               *)
(***************************************************************************)
EXTENDS Integers

CONSTANTS Width,  \* what does not fit the length field: 2^16 bytes
          Zero    \* the zero value of every field

ASSUME WidthAssumption == Width \in Nat \ {0}

(* encode, Write: what goes over the connection for an event whose encoding *)
(* is size long.                                                            *)
Frame(event, size) ==
  [length |-> size % Width,
   size   |-> size,
   fields |-> [f \in {g \in DOMAIN event : event[g] # Zero} |-> event[f]]]

(* A message cut short by its own length field is an error to gob.          *)
Decodes(frame) == frame.length = frame.size

(* Mutant of decode: the fields of the message are all there is.            *)
decodeFieldsOnly(into, frame) == frame.fields

(* decode into an event that may still hold an earlier one.                 *)
decode(into, frame) ==
  [f \in DOMAIN into |->
     IF f \in DOMAIN frame.fields THEN frame.fields[f] ELSE into[f]]
==============================================================================
