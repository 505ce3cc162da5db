---------------------------- MODULE FileSettings ----------------------------
(***************************************************************************)
(* The wire form of the SDM settings, as ChangeFileSettings sends it and   *)
(* GetFileSettings returns it: the option bits, the access nibbles and a   *)
(* list of 24-bit numbers whose meaning depends on both.                   *)
(***************************************************************************)
EXTENDS SdmSettings

\* Option bits 7, 6, 5, 4 and 3 of SDMOptions.
Option == {"uid", "ctr", "limit", "enc", "tt"}

Flag(name, on) == IF on THEN {name} ELSE {}
Number(on, value) == IF on THEN <<value>> ELSE << >>

Offset(s, m) == IF Has(s, m) THEN <<At(s, m)>> ELSE << >>

\* Deviation: the tamper status goes before the PICCData.
NumbersTamperFirst(s) ==
  Offset(s, "uid") \o Offset(s, "ctr") \o Offset(s, "tt") \o Offset(s, "picc")
    \o Number(Has(s, "mac"), s.input)
    \o Offset(s, "enc") \o Number(Has(s, "enc"), s.encLen) \o Offset(s, "mac")
    \o Number(s.limit # NoLimit, s.limit)

\* The numbers in wire order.
Numbers(s) ==
  Offset(s, "uid") \o Offset(s, "ctr") \o Offset(s, "picc") \o Offset(s, "tt")
    \o Number(Has(s, "mac"), s.input)
    \o Offset(s, "enc") \o Number(Has(s, "enc"), s.encLen) \o Offset(s, "mac")
    \o Number(s.limit # NoLimit, s.limit)

Encode(s) ==
  [options |-> Includes(s) \union Flag("limit", s.limit # NoLimit)
                 \union Flag("enc", Has(s, "enc")) \union Flag("tt", Has(s, "tt")),
   meta |-> IF Has(s, "picc") THEN "key"
            ELSE IF Includes(s) # {} THEN "free" ELSE "none",
   read |-> Has(s, "mac"),
   numbers |-> Numbers(s)]

\* `u24_le` refuses a number that takes more than three bytes.
Encodable(s) == \A i \in DOMAIN Numbers(s) : Numbers(s)[i] <= MaxOffset

\* The wire form that settings have, if they have one.
Sent(s) == IF Encodable(s) THEN {Encode(s)} ELSE {}

\* The names of the numbers that follow these options and nibbles.
Layout(w) ==
  LET set(o) == o \in w.options
  IN  Number(set("uid") /\ w.meta = "free", "uid")
        \o Number(set("ctr") /\ w.meta = "free", "ctr")
        \o Number(w.meta = "key", "picc")
        \o Number(set("tt"), "tt")
        \o Number(w.read, "input")
        \o Number(w.read /\ set("enc"), "enc")
        \o Number(w.read /\ set("enc"), "encLen")
        \o Number(w.read, "mac")
        \o Number(set("limit"), "limit")

Names(w) == {Layout(w)[i] : i \in DOMAIN Layout(w)}

\* The number of that name, 0 if there is none.
Value(w, name) ==
  IF name \in Names(w)
    THEN w.numbers[CHOOSE i \in DOMAIN Layout(w) : Layout(w)[i] = name] ELSE 0

\* Settings decoded; a limit of 2^24 - 1 is none.
Decoded(w) ==
  [at |-> [m \in Names(w) \intersect Mirror |-> Value(w, m)],
   content |-> IF w.meta = "key" THEN w.options \intersect Identity ELSE {},
   input |-> Value(w, "input"), encLen |-> Value(w, "encLen"),
   limit |-> IF "limit" \in w.options /\ Value(w, "limit") # MaxOffset
               THEN Value(w, "limit") ELSE NoLimit]

\* `FileSettingsView::decode` succeeds: neither too short nor too long, and
\* nothing that contradicts itself.
Decodes(w) ==
  /\ Len(w.numbers) = Len(Layout(w))
  /\ w.meta # "none" => w.options \intersect Identity # {}
  /\ "limit" \in w.options => "ctr" \in w.options
  /\ "enc" \in Names(w) => Value(w, "encLen") > 0 /\ Value(w, "encLen") % EncUnit = 0
  /\ TryNewFromWire(Decoded(w))
=============================================================================
