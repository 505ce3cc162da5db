------------------------------ MODULE MCWireForms ------------------------------
(***************************************************************************)
(* Instances of WireForms for TLC.                                         *)
(***************************************************************************)
EXTENDS WireForms

AllParts == {"settings", "configuration", "suite", "version", "forms"}
FormsOnly == {"forms"}

MCTemplate ==
  [meta |-> "key2", uid |-> TRUE, ctr |-> TRUE, limit |-> FALSE, enc |-> TRUE, tt |-> TRUE,
   fileRead |-> "key1", ctrRet |-> "none"]
MCKeys == {"key0", "key2"}
MCAccess == {"free", "key2"}

\* Every kind of meta data, with a limit just where the counter is free, and
\* the tamper status wherever there is encrypted data.
MCSdm ==
  {s \in SdmFields :
     /\ Expressible(s)
     /\ s.meta \in {"none", "free", "key2"} /\ s.fileRead \in {"none", "key3"}
     /\ s.ctrRet \in {"none", "free"}
     /\ s.limit <=> s.ctrRet = "free"
     /\ s.enc => s.tt}

MCCap == {7}
MCCounters == {<<300, 5>>}

\* Containers: a header with a length that fits, falls short or goes beyond,
\* up to four entries with sound and unsound tags, lengths and conditions, and
\* up to two bytes after them.
MCHeader(length) == <<0, length, 32, 1, 0, 0, 255>>
MCEntries ==
  {<<kindTag, size, 225, 4, 1, 0, r, w>> :
     kindTag \in {4, 5, 6}, size \in {6, 5}, r \in {0, 128, 255}, w \in {132, 133, 127, 0}}
MCSound == <<5, 6, 225, 5, 0, 128, 130, 131>>
MCBodies ==
  {<< >>} \union MCEntries \union {e \o MCSound : e \in MCEntries}
    \union {e \o MCSound \o e : e \in MCEntries} \union {e \o e \o e \o MCSound : e \in MCEntries}
MCContainers ==
  {MCHeader(length) \o body \o rest :
     length \in {0, 7, 8, 15, 16, 23, 31, 39, 255}, body \in MCBodies,
     rest \in {<< >>, <<0>>, <<4, 6>>}} \union {<<0, 7, 32, 1>>}

MCTokens ==
  {"https://", "http://", "www.", "ftp://", "ftp.", "urn:", "epc:", "id:", "nfc:", "tel:",
   "example"}
\* All short ones; one that is too long for the file; and one that fits it by
\* its abbreviation alone, longer than MaxString.
MCUrls ==
  UNION {[1 .. n -> MCTokens] : n \in 1 .. 3}
    \union {[i \in 1 .. 9 |-> "example"],
            <<"https://", "www.">> \o [i \in 1 .. 7 |-> "example"]}
MCOldUrls == {<<"example">>, <<"https://", "www.", "example", "example", "example">>}

MCUids == {<<0>>, <<1>>, <<128>>}
MCKeyNumbers == 0 .. 2
\* With a UID and a key number of one byte each, those of three bytes fill
\* both blocks.
MCSystemIds == UNION {[1 .. n -> {0, 1, 128}] : n \in 0 .. 2} \union [1 .. 3 -> {0, 128}]
=============================================================================
