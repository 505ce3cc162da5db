-------------------------------- MODULE NdefUri --------------------------------
(***************************************************************************)
(* The URI record of the NDEF file: how a URL is abbreviated and framed,   *)
(* and how it is read back from a file that held another one before.  A    *)
(* URL is a sequence of tokens, each as long as one byte; no token of the  *)
(* table begins with another.                                              *)
(***************************************************************************)
EXTENDS Naturals, Sequences

CONSTANTS
  MaxPayload, MaxFile,   \* 255, the length field; 256, the file by default
  MaxString              \* 256, the capacity of a string where there is no `alloc`
ASSUME UriAssumption == MaxPayload \in Nat /\ MaxFile \in Nat /\ MaxString \in Nat

Header == 7   \* NLEN (2), D1 01, payload length, 55, prefix code

\* The codes 01 to 23, in this order.
NdefUriPrefixes ==
  <<<<"http://", "www.">>, <<"https://", "www.">>, <<"http://">>, <<"https://">>, <<"tel:">>,
    <<"mailto:">>, <<"ftp://", "anonymous:anonymous@">>, <<"ftp://", "ftp.">>, <<"ftps://">>,
    <<"sftp://">>, <<"smb://">>, <<"nfs://">>, <<"ftp://">>, <<"dav://">>, <<"news:">>,
    <<"telnet://">>, <<"imap:">>, <<"rtsp://">>, <<"urn:">>, <<"pop:">>, <<"sip:">>, <<"sips:">>,
    <<"tftp:">>, <<"btspp://">>, <<"btl2cap://">>, <<"btgoep://">>, <<"tcpobex://">>,
    <<"irdaobex://">>, <<"file://">>, <<"urn:", "epc:", "id:">>, <<"urn:", "epc:", "tag:">>,
    <<"urn:", "epc:", "pat:">>, <<"urn:", "epc:", "raw:">>, <<"urn:", "epc:">>,
    <<"urn:", "nfc:">>>>

BytesEqAt(url, prefix) ==
  Len(url) >= Len(prefix) /\ SubSeq(url, 1, Len(prefix)) = prefix

Matching(url) == {c \in DOMAIN NdefUriPrefixes : BytesEqAt(url, NdefUriPrefixes[c])}

\* The first entry that matches, 0 if none does.
DetectUriPrefix(url) ==
  IF Matching(url) = {} THEN 0 ELSE CHOOSE c \in Matching(url) : \A d \in Matching(url) : c <= d

Prefix(code) == IF code = 0 THEN << >> ELSE NdefUriPrefixes[code]

\* What `build_sdm_ndef_plan_core` writes, and whether it fits.
Content(url)   == SubSeq(url, Len(Prefix(DetectUriPrefix(url))) + 1, Len(url))
PayloadOf(url) == 1 + Len(Content(url))
Fits(url)      == PayloadOf(url) <= MaxPayload /\ 6 + PayloadOf(url) <= MaxFile

Planned(url) ==
  [nlen |-> 4 + PayloadOf(url), uri |-> TRUE, payload |-> PayloadOf(url),
   code |-> DetectUriPrefix(url), rest |-> Content(url)]

\* The plan written over a file: what lies after it stays.
WrittenOver(old, new) ==
  [new EXCEPT !.rest = @ \o SubSeq(old.rest, Len(@) + 1, Len(old.rest))]

\* Deviation: the rest of the file is taken for part of the message.
CutNowhere(file) == file.rest

\* The content of the message within the file.
Cut(file) == SubSeq(file.rest, 1, file.nlen + 2 - Header)

\* What the parser puts together has room in the string of the build.
HasRoom(file, alloc) == alloc \/ Len(Prefix(file.code)) + Len(Cut(file)) <= MaxString

\* `parse_ndef_uri`: the URL, an error, or a panic: where NLEN says that the
\* message ends before its own header does, and in a build without `alloc`
\* where `push_str` finds no room.
ParseNdefUri(file, alloc) ==
  CASE ~file.uri -> <<"InvalidHeader">>
    [] file.nlen + 2 > Header + Len(file.rest) -> <<"SizeMismatch">>
    [] file.nlen + 2 < Header -> <<"panic">>
    [] file.code \notin 0 .. Len(NdefUriPrefixes) -> <<"UnknownPrefixCode">>
    [] Header + Len(Cut(file)) # 6 + file.payload -> <<"PayloadSizeMismatch">>
    [] ~HasRoom(file, alloc) -> <<"panic">>
    [] OTHER -> <<"ok", Prefix(file.code) \o Cut(file)>>
=============================================================================
