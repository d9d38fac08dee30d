----------------------------- MODULE WordCode -----------------------------
(***************************************************************************)
(* Pairing codes (core/pairing/wordcode.rs) and the keys that two sides     *)
(* derive from their words (core/pairing/spake.rs, handshake.rs).           *)
(*                                                                         *)
(* A word is a text: a member of the word list in one of its spellings.    *)
(* What a user types is a record: whether it has a hyphen, the part before *)
(* the first one and the words after it.                                   *)
(***************************************************************************)
EXTENDS Integers, Sequences, Functions

CONSTANTS
  Wordlist,      \* the lower-case words
  WordCount,     \* WORD_COUNT, 3 in the code
  NameplateMax   \* 9999 in the code

ASSUME WordCodeAssumption ==
  /\ WordCount \in Nat \ {0}
  /\ NameplateMax \in Nat \ {0}

Spellings == {"lower", "other"}
Word == [word : Wordlist, spelling : Spellings]
Lower(w) == [w EXCEPT !.spelling = "lower"]

\* to_lowercase and trim, what derive_topic makes of the words
Normalised(ws) == [i \in DOMAIN ws |-> Lower(ws[i])]

\* A nameplate part: only digits or not (signs, underscores, nothing at all),
\* and its value; a leading zero changes neither.
Plate == [digits : BOOLEAN, value : Nat]
Text == [hyphen : BOOLEAN, plate : Plate, words : Seq(Word)]
Code == [nameplate : 1 .. NameplateMax, words : Seq(Word)]

ParsesPlate(p) == p.digits /\ p.value \in 1 .. NameplateMax

\* split: the words are taken as they stand
Splits(t) == t.hyphen /\ t.words # <<>> /\ ParsesPlate(t.plate)
Split(t) == [nameplate |-> t.plate.value, words |-> t.words]

ValidatesCountingPlateMutant(t) ==
  /\ t.hyphen
  /\ Len(t.words) = WordCount + 1
  /\ ParsesPlate(t.plate)
  /\ \A i \in DOMAIN t.words : t.words[i].spelling = "lower"
  /\ IsInjective(t.words)

\* validate: exactly WordCount words of the list, in lower case, no two alike
Validates(t) ==
  /\ t.hyphen
  /\ Len(t.words) = WordCount
  /\ ParsesPlate(t.plate)
  /\ \A i \in DOMAIN t.words : t.words[i].spelling = "lower"
  /\ IsInjective(t.words)

\* The codes generate can draw for nameplate n: none when n is out of range.
Generate(n) ==
  IF n \notin 1 .. NameplateMax THEN {}
  ELSE {[nameplate |-> n, words |-> ws] :
          ws \in {f \in [1 .. WordCount -> [word : Wordlist, spelling : {"lower"}]] :
                    IsInjective(f)}}

Display(c) ==
  [hyphen |-> TRUE, plate |-> [digits |-> TRUE, value |-> c.nameplate],
   words |-> c.words]

-----------------------------------------------------------------------------
(* SPAKE2, symmetric: a side starts with its words and sends a message; the *)
(* key is a hash over its own words and the two messages in a fixed order.  *)

StartPake(ws, who) == [kind |-> "spake", words |-> ws, from |-> who]
IsPake(m) == m.kind = "spake"
IsConfirm(m) == m.kind = "confirm"
FinishPake(ws, mine, inbound) == [words |-> ws, messages |-> {mine, inbound}]
ConfirmToken(key) == [kind |-> "confirm", key |-> key]
VerifyConfirm(key, token) == IsConfirm(token) /\ ConfirmToken(key) = token

\* The outcome of spake_sender_side and spake_receiver_side when every message
\* arrives: both tokens travel, each side verifies the other's.
Agree(sent, received) ==
  LET a == StartPake(sent, "sender")
      b == StartPake(received, "receiver")
      sender == FinishPake(sent, a, b)
      receiver == FinishPake(received, b, a)
  IN  /\ IsPake(a) /\ IsPake(b)
      /\ VerifyConfirm(sender, ConfirmToken(receiver))
      /\ VerifyConfirm(receiver, ConfirmToken(sender))
=============================================================================
