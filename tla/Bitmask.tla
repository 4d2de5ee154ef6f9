------------------------------- MODULE Bitmask -------------------------------
(***************************************************************************)
(* Bitmask<E>: a set of the flags that an enumeration E names, kept in an  *)
(* integer of E's underlying type.  That integer is the set of positions   *)
(* of its bits, as the value of an enumerator is: NMEA0183DataKind::GPGGA, *)
(* 1 << 0, is a set of one bit, and NMEA0183DataKind::INVALID, 0, is {}.   *)
(* Each operator between masks, between a mask and an enumerator and       *)
(* between two enumerators has the same definition.                        *)
(***************************************************************************)

CONSTANT Bits  \* the positions in the underlying type, 32 for NMEA0183DataKind

-----------------------------------------------------------------------------
\* set(): mask_ |= value.
Set(mask, value) == mask \cup value

\* clear(): mask_ &= ~value.
Clear(mask, value) == mask \ value

\* is_set(): (mask_ & v) == v.  A value without bits is set in every mask.
IsSet(mask, value) == value \subseteq mask

\* none() and the default constructor; all() converts -1, which has every bit.
None == {}
All == Bits

IsNone(mask) == mask = {}

And(mask, other) == mask \cap other
Or(mask, other) == mask \cup other
Xor(mask, other) == (mask \ other) \cup (other \ mask)
Not(mask) == Bits \ mask
=============================================================================
