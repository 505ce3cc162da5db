-------------------------- MODULE CapabilityContainer --------------------------
(***************************************************************************)
(* The capability container: the file in which a tag tells standard        *)
(* readers its limits and, for each file, who may read and write it.  It   *)
(* only informs; the rights of AccessRights are what the tag goes by.      *)
(***************************************************************************)
EXTENDS Naturals, Sequences

MaxFiles == 3

\* Deviation: the high bit alone makes a key, whatever the number.
FromByteMasked(b) ==
  CASE b = 0            -> <<"open", 0>>
    [] b = 255          -> <<"denied", 0>>
    [] b >= 128         -> <<"key", b % 5>>
    [] OTHER            -> <<"raw", b>>

\* `AccessCondition`: open, a key, denied, or any other byte as it is.
FromByte(b) ==
  CASE b = 0            -> <<"open", 0>>
    [] b \in 128 .. 132 -> <<"key", b - 128>>
    [] b = 255          -> <<"denied", 0>>
    [] OTHER            -> <<"raw", b>>

ToByte(c) ==
  CASE c[1] = "open" -> 0 [] c[1] = "key" -> 128 + c[2]
    [] c[1] = "denied" -> 255 [] OTHER -> c[2]

KindTag == [ndef |-> 4, prop |-> 5]

Entry(kind, id, size, read, write) ==
  [kind |-> kind, id |-> id, size |-> size, read |-> read, write |-> write]

\* The container as delivered.
Default ==
  [ccLen |-> 23, version |-> 32, maxLe |-> 256, maxLc |-> 255,
   files |-> <<Entry("ndef", 57604, 256, <<"open", 0>>, <<"open", 0>>),
               Entry("prop", 57605, 128, <<"key", 2>>, <<"key", 3>>)>>]

-----------------------------------------------------------------------------
(* from_bytes and to_bytes; words have their high byte first *)

High(w)       == w \div 256
Low(w)        == w % 256
Word(data, i) == 256 * data[i] + data[i + 1]

EntryAt(data, i) ==
  Entry(IF data[i] = 4 THEN "ndef" ELSE "prop", Word(data, i + 2), Word(data, i + 4),
        FromByte(data[i + 6]), FromByte(data[i + 7]))

\* How much of the data counts, and the entries in it: every entry that is
\* accepted has 8 bytes.
Limit(data) == IF Word(data, 1) < Len(data) THEN Word(data, 1) ELSE Len(data)
Count(data) == IF Limit(data) > 7 THEN (Limit(data) - 7) \div 8 ELSE 0
Start(k)    == 8 * k

\* A single byte after the last entry is let pass, a longer rest is not.
Parses(data) ==
  /\ Len(data) >= 7
  /\ Limit(data) > 7 => (Limit(data) - 7) % 8 <= 1
  /\ Count(data) <= MaxFiles
  /\ \A k \in 1 .. Count(data) : data[Start(k)] \in {4, 5} /\ data[Start(k) + 1] = 6

FromBytes(data) ==
  [ccLen |-> Word(data, 1), version |-> data[3],
   maxLe |-> Word(data, 4), maxLc |-> Word(data, 6),
   files |-> [k \in 1 .. Count(data) |-> EntryAt(data, Start(k))]]

EntryBytes(f) ==
  <<KindTag[f.kind], 6, High(f.id), Low(f.id), High(f.size), Low(f.size),
    ToByte(f.read), ToByte(f.write)>>

HeaderBytes(cc) ==
  <<High(cc.ccLen), Low(cc.ccLen), cc.version, High(cc.maxLe), Low(cc.maxLe),
    High(cc.maxLc), Low(cc.maxLc)>>

ToBytes(cc) ==
  [i \in 1 .. (7 + 8 * Len(cc.files)) |->
     IF i <= 7 THEN HeaderBytes(cc)[i] ELSE EntryBytes(cc.files[i \div 8])[(i % 8) + 1]]

-----------------------------------------------------------------------------
(* Changing a container *)

\* `find_mut`: the first entry of that kind, if there is one.
Found(cc, kind) ==
  {k \in DOMAIN cc.files :
     cc.files[k].kind = kind /\ \A j \in 1 .. (k - 1) : cc.files[j].kind # kind}

\* Deviation: the read condition is changed instead.
WithWriteAccessMixedUp(cc, kind, c) ==
  [cc EXCEPT !.files = [k \in DOMAIN @ |->
     IF k \in Found(cc, kind) THEN [@[k] EXCEPT !.read = c] ELSE @[k]]]

\* `with_ndef_write_access`, `with_proprietary_write_access`.
WithWriteAccess(cc, kind, c) ==
  [cc EXCEPT !.files = [k \in DOMAIN @ |->
     IF k \in Found(cc, kind) THEN [@[k] EXCEPT !.write = c] ELSE @[k]]]
=============================================================================
