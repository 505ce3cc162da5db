--------------------------- MODULE TagConfiguration ---------------------------
(***************************************************************************)
(* `Configuration`, which collects options by `with_*` calls, and          *)
(* `set_configuration`, which sends each option that was set in an APDU of *)
(* its own.  Any of these may fail, and then those before it have been     *)
(* applied; most of them can never be taken back.                          *)
(***************************************************************************)
EXTENDS Naturals, Sequences

CONSTANTS
  CapBytes,     \* values a caller gives to PDCap2.5 and PDCap2.6
  Counters,     \* pairs of limit and decrement of the failed-authentication counter
  MaxSetters,   \* bound: `with_*` calls
  MaxSends      \* bound: calls of `set_configuration`

U16 == 0 .. 65535

ASSUME ConfigurationAssumption ==
  /\ CapBytes \subseteq 0 .. 255
  /\ Counters \subseteq (U16 \ {0}) \X U16
  /\ MaxSetters \in Nat /\ MaxSends \in Nat

VARIABLES
  config,    \* the Configuration: the bytes of each option that was set
  setters,   \* the `with_*` calls made on it
  made,      \* the number of all such calls, on this configuration and others
  sending,   \* the call of `set_configuration`: how far in the order of the
             \* options, how it ended, for what
  device     \* external: what the tag is configured to, now and before the call

confVars == <<config, setters, made, sending, device>>

-----------------------------------------------------------------------------
(* The builder *)

Setter ==
  {<<"random uid", 0>>, <<"no chained writing", 0>>, <<"no failed counter", 0>>}
    \union ({"pdcap2.5", "pdcap2.6"} \X CapBytes)
    \union ({"tag tamper"} \X {2, 15})
    \union ({"failed counter"} \X Counters)
    \union ({"strong modulation"} \X {0})

OrBit(byte, weight) == IF (byte \div weight) % 2 = 1 THEN byte ELSE byte + weight
LittleEndian(w)     == <<w % 256, w \div 256>>
Zeros(n)            == [i \in 1 .. n |-> 0]

\* Deviation: the option starts from zero at every call.
GetOrInsertFresh(option, length) == Zeros(length)

\* `get_or_insert`.
GetOrInsert(option, length) ==
  IF option \in DOMAIN config THEN config[option] ELSE Zeros(length)

\* The option that a call sets, and its bytes after it.
WithOption(c) ==
  CASE c[1] = "random uid"         -> <<0, <<OrBit(GetOrInsert(0, 1)[1], 2)>>>>
    [] c[1] = "no chained writing" -> <<4, [GetOrInsert(4, 2) EXCEPT ![1] = OrBit(@, 4)]>>
    [] c[1] = "lrp"                -> <<5, [GetOrInsert(5, 10) EXCEPT ![5] = OrBit(@, 2)]>>
    [] c[1] = "pdcap2.5"           -> <<5, [GetOrInsert(5, 10) EXCEPT ![9] = c[2]]>>
    [] c[1] = "pdcap2.6"           -> <<5, [GetOrInsert(5, 10) EXCEPT ![10] = c[2]]>>
    [] c[1] = "tag tamper"         -> <<7, <<1, c[2]>>>>
    [] c[1] = "failed counter"     ->
         <<10, <<1>> \o LittleEndian(c[2][1]) \o LittleEndian(c[2][2])>>
    [] c[1] = "no failed counter"  -> <<10, Zeros(5)>>
    [] OTHER                       -> <<11, <<c[2]>>>>

Idle == sending.state # "running"

Put(c) ==
  LET o == WithOption(c)
  IN  /\ config' = [x \in DOMAIN config \union {o[1]} |-> IF x = o[1] THEN o[2] ELSE config[x]]
      /\ setters' = Append(setters, c)
      /\ made' = made + 1
      /\ UNCHANGED <<sending, device>>

\* `with_lrp_enabled` is for `enable_lrp` only and stands alone.
With(c) ==
  /\ Idle /\ made < MaxSetters
  /\ \A i \in DOMAIN setters : setters[i][1] # "lrp"
  /\ Put(c)
WithLrp == Idle /\ made < MaxSetters /\ setters = << >> /\ Put(<<"lrp", 0>>)

\* `Configuration::new`.
NewConfiguration ==
  /\ Idle /\ setters # << >>
  /\ config' = << >> /\ setters' = << >>
  /\ sending' = [sending EXCEPT !.state = "new"]
  /\ UNCHANGED <<device, made>>

-----------------------------------------------------------------------------
(* set_configuration *)

WireOrder == <<0, 4, 5, 7, 10, 11>>

\* What the iterator of `build` has left at a place of the order: the places of
\* the options that were set.
Build(place) == {p \in (place + 1) .. 6 : WireOrder[p] \in DOMAIN config}

SetConfiguration ==
  /\ Idle /\ sending.calls < MaxSends
  /\ sending' = [state |-> IF Build(0) = {} THEN "ok" ELSE "running", at |-> 0,
                 calls |-> sending.calls + 1, said |-> setters]
  /\ device' = [device EXCEPT !.before = device.now]
  /\ UNCHANGED <<config, setters, made>>

\* External: what an option does to a tag.
IsOn(byte, weight) == (byte \div weight) % 2 = 1
Applied(d, option, data) ==
  CASE option = 0  -> [d EXCEPT !.ruid = @ \/ IsOn(data[1], 2)]
    [] option = 4  -> [d EXCEPT !.chained = @ /\ ~IsOn(data[1], 4)]
    [] option = 5  -> [d EXCEPT !.lrp = @ \/ IsOn(data[5], 2), !.cap = <<data[9], data[10]>>]
    [] option = 7  -> [d EXCEPT !.tamper = IF data[1] = 1 THEN {data[2]} ELSE @]
    [] option = 10 -> [d EXCEPT !.failed = IF data[1] = 1
                                             THEN {<<data[2] + 256 * data[3], data[4] + 256 * data[5]>>}
                                             ELSE {}]
    [] OTHER       -> [d EXCEPT !.strong = data[1] = 1]

\* Answered; applied with the answer lost; lost before or refused.
SendOption ==
  /\ sending.state = "running"
  /\ \E p \in Build(sending.at) :
       LET option == WireOrder[p]
           done == [device EXCEPT !.now = Applied(@, option, config[option])]
       IN  /\ \A q \in Build(sending.at) : p <= q
           /\ \/ /\ device' = done
                 /\ sending' = [sending EXCEPT !.at = p, !.state = IF Build(p) = {} THEN "ok" ELSE @]
              \/ /\ device' \in {done, device}
                 /\ sending' = [sending EXCEPT !.state = "failed"]
  /\ UNCHANGED <<config, setters, made>>

Delivered ==
  [ruid |-> FALSE, chained |-> TRUE, lrp |-> FALSE, cap |-> <<0, 0>>, tamper |-> {},
   failed |-> {<<1000, 10>>}, strong |-> TRUE]

InitConfiguration ==
  /\ config = << >> /\ setters = << >> /\ made = 0
  /\ sending = [state |-> "new", at |-> 0, calls |-> 0, said |-> << >>]
  /\ device = [now |-> Delivered, before |-> Delivered]

ConfigurationNext ==
  \/ \E c \in Setter : With(c)
  \/ WithLrp \/ NewConfiguration \/ SetConfiguration \/ SendOption

-----------------------------------------------------------------------------
(* Properties *)

\* What the calls say, the last one of its kind first; an aspect none of them
\* is about stays as it was, but for the two bytes of the capability, which
\* come together.
Said(names) == {i \in DOMAIN sending.said : sending.said[i][1] \in names}
LastSaid(names) == sending.said[CHOOSE i \in Said(names) : \A j \in Said(names) : j <= i]
CapSaid(name) == IF Said({name}) = {} THEN 0 ELSE LastSaid({name})[2]

Meant(d, option) ==
  CASE option = 0 /\ Said({"random uid"}) # {} -> [d EXCEPT !.ruid = TRUE]
    [] option = 4 /\ Said({"no chained writing"}) # {} -> [d EXCEPT !.chained = FALSE]
    [] option = 5 /\ Said({"lrp", "pdcap2.5", "pdcap2.6"}) # {} ->
         [d EXCEPT !.lrp = @ \/ Said({"lrp"}) # {},
                   !.cap = <<CapSaid("pdcap2.5"), CapSaid("pdcap2.6")>>]
    [] option = 7 /\ Said({"tag tamper"}) # {} ->
         [d EXCEPT !.tamper = {LastSaid({"tag tamper"})[2]}]
    [] option = 10 /\ Said({"failed counter", "no failed counter"}) # {} ->
         LET c == LastSaid({"failed counter", "no failed counter"})
         IN  [d EXCEPT !.failed = IF c[1] = "failed counter" THEN {c[2]} ELSE {}]
    [] option = 11 /\ Said({"strong modulation"}) # {} ->
         [d EXCEPT !.strong = LastSaid({"strong modulation"})[2] = 1]
    [] OTHER -> d

\* What the first k options in the order 00 04 05 07 0A 0B make of the tag.
MeantBy[k \in 0 .. 6] ==
  IF k = 0 THEN device.before ELSE Meant(MeantBy[k - 1], <<0, 4, 5, 7, 10, 11>>[k])

\* However the calls of `with_*` are mixed and repeated, and wherever
\* `set_configuration` breaks off or is repeated: the tag has all that the
\* calls say of the options up to some point of the order, and nothing of
\* those after it; all of it once the call has succeeded.
ConfiguredInOrder ==
  sending.state # "new" =>
    /\ \E k \in 0 .. 6 : device.now = MeantBy[k]
    /\ sending.state = "ok" => device.now = MeantBy[6]
=============================================================================
