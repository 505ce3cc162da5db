# A TLA+ model of the `ntag424` crate

The crate talks to an NTAG 424 DNA chip (the *tag*, or PICC) over a
transport that carries one APDU at a time. It authenticates, sends commands
with secure messaging, sets up *Secure Dynamic Messaging* (SDM: on every read
the tag fills identity, counter, tamper status, encrypted data and a MAC into
placeholders of an NDEF file), provisions tags and takes them back, and
verifies on a server what a tag has mirrored. This directory holds a model of
the parts of it that keep state or decide something, the TLC runs that check
them, and the proofs of the properties that matter most.

- Modules: [Inventory](#inventory), then one section per component
- [Runs](#runs), [Bounds](#bounds), [Fairness](#fairness), [Proofs](#proofs)
- [Disagreements](#disagreements-between-code-and-documentation) that the
  runs show, [what is left out](#what-is-not-modelled), and the
  [plan](#plan)

To check a run: `tlc -config SecureMessaging.cfg MCSecureMessaging`.
To check the proofs: `tlapm SecureMessaging_proofs.tla`, and likewise the other
seven modules whose names end in `_proofs`; `WireForms_proofs` takes about five
minutes, the others less.

`PROJECT.json` lists the components, the runs with their properties, for every
modelled definition the source lines it stands for, the hazards of the code
with the properties aimed at them, and for every property a small change of a
definition (a *Deviation* in the module) that must break it.

## Inventory

| component | source (under `src/ntag424/src`) | state | operations | module |
|---|---|---|---|---|
| authenticated session, secure channel | `session/authenticated*.rs`, `commands/secure_channel.rs` | keys, TI, CmdCtr, EncCtr | every command of the session, in plain, MAC and full mode | `SecureMessaging` |
| authentication | `commands/authenticate/` | the above | First and NonFirst, AES and LRP | `SecureMessaging` |
| unauthenticated session, selections, chunked reads and writes | `session/unauthenticated.rs`, `session/mod.rs`, `commands/read_data.rs`, `write_data.rs`, `iso_*.rs` | `ndef_selected`, `ef_selected`; the progress of a transfer | select, read, write, settings, version | `FileAccess` |
| factory check | `session/unauthenticated.rs` | none | `check_factory_state`, stage by stage | `FactoryCheck`, `FileAccess` |
| provisioning and reset | `high_level/provision.rs`, `reset.rs` | none on the host; the tag outlives the call | about twenty steps each | `Provisioning` |
| verification service | `high_level/verification.rs` | the read-counter store | `verify`, with two awaits of the store | `SdmVerification` |
| file settings and access rights | `types/file_settings/` | the settings on the tag | decode, change, encode; which mode a read or write takes | `AccessRights`, `Personalisation` |
| SDM settings | `types/file_settings/sdm.rs` | none | `Sdm::try_new`, wire form | `SdmSettings`, `FileSettings` |
| capability container | `types/cc.rs` | the file on the tag | codec, changes of conditions | `CapabilityContainer`, `Personalisation` |
| SDM URL planner, NDEF URI records | `sdm_url.rs` | the parser's | `sdm_url_config`; the prefix table, `parse_ndef_uri` | `SdmUrl`, `NdefUri` |
| SDM verifier | `crypto/sdm/` | none | `try_new`, `with_offset`, `validate`, `verify` | `SdmReadout` |
| configuration | `types/configuration.rs`, `commands/set_configuration.rs` | the options collected; the tag's options | `with_*`, `set_configuration` | `TagConfiguration` |
| cipher suites | `crypto/suite.rs`, `crypto/lrp.rs` | EncCtr | session vectors, CBC, LRICB | `CipherSuite` |
| version | `commands/get_version.rs`, `types/version.rs` | the frame that is due, on the tag | `get_version` with its three frames | `VersionChain` |
| key diversification | `crypto/key_diversification.rs` | none | `diversify_ntag424`, `diversify_aes128` | `KeyDiversification` |
| status words | `types/response_code.rs`, `response_status.rs` | none | `ok`, `status` | `Answers` |
| originality signature | `crypto/originality.rs` | none | verification | a symbol in `Provisioning` and `FactoryCheck` |
| transports, bindings, examples | the other crates and `examples/` | none of their own | I/O | external |

How they interact. The high-level calls (`provision`, `reset`) drive sessions;
a session owns its channel and borrows the transport for one call at a time; a
session method that takes `self` by value gives the session back only on
success, one that takes `&mut self` leaves it to the caller after an error.
The URL planner makes settings and bytes that `provision` writes, and the
verifier that the service uses is made from the same settings. The service
shares the read-counter store, and nothing else, between calls.

What is hard here, and hard to test:

- an answer that is lost after the tag has acted: the two counters, or the
  host's idea of a key or a selection, part from the tag's;
- sessions that survive an error (plain reads and writes, unauthenticated
  calls) with state that is no longer true;
- a call of many exchanges that stops in the middle, on a tag that somebody
  will meet again, perhaps with other keys;
- a transfer of many chunks, each with limits of its own, in four framings;
- two calls of an asynchronous service around a store;
- placeholders in any order at any offset, of which the tag, the settings, the
  wire form, the URL and the verifier must all have the same idea;
- counters of several digits that carry, and go on from one payload to the
  next and from one session to the next.

What makes each component correct: a command is confirmed only if the tag has
executed this very command, and both ends then hold the same counters, with no
initialisation vector used twice (`SecureMessaging`, `CipherSuite`); bytes
moved are those of the range that was asked for, in the file that was named
(`FileAccess`); a tag changes hands only complete or clean (`Provisioning`); a
readout is accepted at most once and a genuine one is not locked out
(`SdmVerification`); settings that are accepted can be sent, but for a counter
limit of more than three bytes, are read back the same, and lead to readouts
that verify (`SdmReadout`); the settings, the
capability container and the configuration of a tag are those that the calls
report (`Personalisation`, `TagConfiguration`).

## Secure messaging

`SecureMessaging.tla` has both ends of a session. `sess` is the session value
with its channel (`m`: suite, key, TI, CmdCtr `ctr`, EncCtr `enc`), `call` the
method that is running, `wire` what the transport carries. `tag` is external:
it is written from what the crate expects of the PICC, and so is `stale`, the
last answer that a faulty reader could hand over again. `n`, `sealed` and
`failed` are history: APDUs sent, initialisation vectors used, plain calls that
returned an error.

One action is one APDU sent or one answer received, each with everything the
handler does: building the command with its MAC and ciphertext
(`send_mac`, `send_full`), checking MACt, decrypting, advancing CmdCtr, ending
or keeping the session. Chunked reads and writes are one call with several
APDUs. GetVersion is a chain of three frames of which only the last carries a
MAC. `SetConfiguration` sends one APDU per option, and like `EnableLRP` and
the change of the master key takes an empty answer for success. The transport
fails before or after the tag has acted, the tag refuses, and it loses power.

Cryptography is symbolic: a key is the number of the handshake that made it, a
MAC the tuple of what it covers, a ciphertext its initialisation vector. AES
rebuilds the vector from TI, CmdCtr and direction; LRP has only its running
EncCtr, counted here as one per payload; `CipherSuite` counts the blocks.

## Provisioning

`Provisioning.tla` has one tag that outlives the calls, and several issuers
who call `provision` and `reset` on it one after another. An action is one
step of a call that changes the tag, or a run of steps that only look. Every
exchange (`Exchange`) may be answered, acted upon without an answer, lost, or
refused. `TagCustody.tla` says what the two calls promise of a tag; the
property `CustodyKept` is that specification under the mapping of Key 0 to the
owner and of everything else to a status.

## Verification service

`SdmVerification.tla` has tags that produce readouts, readouts that arrive in
any order, any number of times and damaged, and workers that run `verify` with
its two awaits: `Get` and `Set` of the counter store, each of which may fail or
be dropped, with or without effect. Some tags are `Silent`: their settings
mirror no counter, so their readouts carry `NoCtr`, and `verify` accepts them at
once and any number of times without asking the store. `AcceptOnce.tla` is what a replay check
promises for the readouts that have a counter, and `AcceptsOnce` is that
specification. `Exclusive` says whether
the store is lent to one call at a time, as `&mut S` has it within one
process; with `FALSE` it is a store that several handles share, which the
trait permits.

## File access

`FileAccess.tla` has a session (`host`) and the tag (`card`, external), each
with the application and the EF it takes for selected and whether it is
authenticated, and one call at a time. One step is one APDU: it is accepted
and answered, accepted but the answer is lost, or refused or never seen. A tag
that refuses a command may keep or drop its authentication over it (`Refusing`),
as in `SecureMessaging`. A plain read or write only borrows the session, so
after such a refusal the caller may have an authenticated session to a tag that
is not. A call names a file, an offset, a length, a buffer, and a mode: `iso` for the
ISO read and update commands, which name no file and read the one that the tag
has selected; `plain`, `mac` and `full` for ReadData and WriteData; `auto` for
`read_file` and `write_file`, which ask for the settings first and take one of
the three. Chunks, the tests of a request (`BadIso`, `BadRead`, `BadWrite`: some
made once, some for each chunk and so after earlier chunks have been moved),
the 15 bits and 24 bits that an offset has on the wire, short answers, and the
slice that panics when a buffer is shorter than the length (`Panic`) are as in
the code, with the numbers made small. `moved` is history: for every byte
moved, the file and position where the tag had it and the index where the
caller has it.

After an error the caller may drop the session or, where the method has not
consumed it, use it again. `lostSelect` is set when it does so after a SELECT
whose answer was lost.

`check_factory_state` (`FactoryCheck.tla`) is a sequence of stages, each of
which looks at one aspect of the tag: a difference in a `Required` aspect ends
the check, one in a `Lasting` aspect, which nobody can undo, is reported. The
check authenticates in a session of its own, and leaves the session that it was
called on as it was.

## SDM settings and readouts

`SdmSettings.tla` is `Sdm`: which placeholders there are (`at`, a partial
function to offsets), and the rules of `try_new`. `FileSettings.tla` is the
list of numbers in their wire form, which carry no names and are told apart
only by the option bits; a number above 2^24 - 1 has no wire form (`Encodable`,
`u24_le`), and `Sent` is empty for settings with one. `SdmUrl.tla` is the template parser as a state
machine with one step per token, and the plan made at its end. Neither spells
out characters: the text of a URL is a number of positions.

`SdmReadout.tla` composes them. Settings are made directly (`Configure`) or by
a template; the tag (external) renders the file, in which each character is a
tuple that says what the tag wrote there; a character may be damaged; and
`Verify` makes a `Verifier` from the settings, or from those decoded from
their wire form, moves it by `with_offset` to the characters of the URL if that
is what the server gets, and extracts, checks and decrypts in the order of
`verify_inner`. A MAC is the tuple of its key and its input, and the key
depends on identity and counter, so that one wrong offset anywhere shows as a
failed verification.

## Below the sessions

`WireForms.tla` puts the remaining parts side by side; a behaviour exercises
one of them, chosen by `part`.

- **Settings** (`Personalisation`, on `AccessRights` and
  `CapabilityContainer`). The tag (external) keeps the settings of its three
  files and the container as the bytes it was sent, and obeys them. A caller
  reads settings, changes one thing and writes them back; reads and writes
  files in the mode that the library chooses (`ModeFor`); and runs
  `configure_ndef`, or the part of `reset` that concerns files, one exchange at
  a time, each of which may be lost on either side of the tag. `AccessRights`
  is the wire form of settings: the header, the four nibbles, option and
  access bits of the SDM part, the bits that the library does not know and
  must refuse.
- **Configuration** (`TagConfiguration`). A `Configuration` collects options
  in any order by its `with_*` methods, of which some merge with what was set
  before; `set_configuration` sends what was set, one APDU per option, and
  stops at the first error.
- **Suite** (`CipherSuite`). Both suites over several messages in both
  directions, with a tag (external) that counts in numbers where the library
  carries digits. A block is a set of terms under symmetric difference, so that
  chaining, padding and a counter at the wrong place all show.
- **Version** (`VersionChain`). `get_version` with its frames, in plain and
  authenticated sessions, with a reader that may hand over an answer again.
- **Forms**: containers from any bytes, URI records written over other ones
  (`NdefUri`) and parsed in a build with `alloc` and in one without, where
  `push_str` panics beyond the 256 bytes (`MaxString`) of its `ArrayString`, inputs of `KeyDiversification`, and the status words of both
  framings (`Answers`). These are pure functions; an input is chosen and
  nothing else happens.

## Runs

| run | module | properties | distinct states |
|---|---|---|---|
| `secure_messaging` | `MCSecureMessaging` | `TypeOK`, `CountersAgree`, `NoSpuriousRejection`, `InStepInv`, `ConfirmedInStep`, `NoIvReuse`, `CallReturns` | 392,684 |
| `secure_messaging_repeat` | `MCSecureMessaging` | `ConfirmedAnswerIsOwn`, with a reader that repeats answers | 943,594 |
| `provisioning` | `MCProvisioning` | `TypeOK`, `OkMeansDone`, `VerifiedFirst`, `KeysInOrder`, `CustodyKept` | 75,124 |
| `sdm_verification` | `MCSdmVerification` | `TypeOK`, `StoreNotAhead`, `RejectionJustified`, `AcceptsOnce` | 76,089 |
| `file_access` | `MCFileAccess` | `TypeOK`, `RightBytes`, `AuthSurvives`, `FactoryVerdict` | 145,992 |
| `sdm` | `MCSdmReadout` | `TypeOK`, `Recovered`, `OkIsTrue`, `RereadSame`, for settings made directly and from templates | 719,865 |
| `wire_forms` | `MCWireForms` | `ContainerHonest`, `EditReadsBack`, `RefusedForRightsOnly`; `ConfiguredInOrder`; `MessageRecovered`, `CountersFresh`, `VectorsWhole`; `VersionWhole`; `ContainerRoundTrip`, `UrlReadsBack`, `KeysDistinct`, `StatusFaithful` | 726,821 |

Five more runs each show one documented statement violated; see
[below](#disagreements-between-code-and-documentation).

What they show:

- **`CountersAgree`, `InStepInv`**: between two calls the CmdCtr of the tag is
  that of the session plus at most the plain calls that failed since; EncCtr
  is equal. `InStepInv` is the same in the middle of calls, and inductive.
- **`NoSpuriousRejection`**: a secured command of a session none of whose
  plain calls has failed is never refused for its MAC.
- **`ConfirmedInStep`**: when a secured command is confirmed, host and tag
  hold the same keys and counters in that moment. With a reader that repeats
  answers this is not so: an unsigned success of an earlier `SetConfiguration`
  passes for the answer to a later one. What holds then too is
  **`ConfirmedAnswerIsOwn`**: an answer with a MACt is confirmed only for the
  APDU it was made for.
- **`NoIvReuse`**: no ciphertext of either end is made under an initialisation
  vector used before, across errors, retained sessions and re-authentication.
- **`CallReturns`**: every call comes to an end.
- **`CustodyKept`, `KeysInOrder`, `OkMeansDone`**: a tag that
  somebody can take over is either one whose provisioning has run to its end or
  one that has been cleaned, whatever was lost on the way and whoever called
  before; the keys changed so far are always the first ones, with Key 0 last, so
  that the holder of a set of keys can tell where to go on; success is reported
  only for all of it. **`VerifiedFirst`**: random UID, the tamper options, keys
  and content of an issuer come only onto a chip whose type and originality
  signature were found to be right, and LRP mode only onto one of the right
  type. That is less than "nothing irreversible before the originality is
  verified": LRP mode is for good, and is enabled before the signature is read
  (`high_level/provision.rs:203`). A reset
  leaves the proprietary file as it is, which its documentation says, and a
  tamper check right after it was enabled may see a status that is not valid
  yet.
- **`AcceptsOnce`, `StoreNotAhead`, `RejectionJustified`**: at most one
  acceptance for each tap of a tag that mirrors its counter, and in order
  (readouts without a counter are accepted again and again and leave the store
  alone); damage cannot drive the store ahead of
  the tag; a rejection as a replay has a reason.
- **`RightBytes`**: whatever is lost, refused or out of range in whichever
  chunk, what has been moved is a first part of what was asked for, of the right
  file, every byte in its place; and success is reported only for all of it.
  The exception is a session that is used again after a SELECT whose answer
  was lost: `ef_selected` is not cleared when a SELECT fails, and the file
  selected before is read as the other.
- **`AuthSurvives`**: a session comes to count as authenticated with a tag that
  is not in one way only: the tag refuses a plain read or write, drops its
  authentication over it, and the caller uses the borrowed session again. No
  step of any other operation parts the two while the tag has its application,
  whichever of its exchanges fails; every other call consumes its session on an
  error, and calls that select, which ends an authentication on the tag, are
  those of sessions without one.
- **`FactoryVerdict`**: a tag is reported as delivered only after every
  required aspect was looked at and both open files were read in full, each as
  itself; and `strictly` so only if it differs in nothing.
- **`Recovered`**: the placeholders of accepted settings do not disturb each
  other, whatever their order, and the verifier gets back what the tag
  mirrored, from the file and from the URL under every prefix. Only a URL that
  does not fit the 256 bytes that `with_offset` allows is out of reach.
  Excluded are layouts in which the tamper status straddles the encrypted
  range, which a separate run is about.
- **`OkIsTrue`**: with one character damaged, what is reported is still true.
  The tamper status is covered by the MAC only if it lies in the MAC window;
  the settings do not ask for that.
- **`RereadSame`**: accepted settings can be sent exactly if their counter limit
  is at most 2^24 - 1 (`try_new` does not look at it, the encoder refuses more),
  and what is sent decodes to the same settings, except that a limit of
  2^24 - 1 becomes none.
- **`EditReadsBack`**: when a change of settings reaches the tag, the tag has
  what was sent, reads back as such, and no other file has changed, from
  whatever settings earlier changes and interrupted calls have left.
- **`RefusedForRightsOnly`**: `read_file` and `write_file` are refused only
  where the rights grant the access neither to the session's key nor to
  everybody; the communication mode they choose is never the reason.
- **`ContainerHonest`**: once `configure_ndef` or `reset` has gone through, the
  container says of the NDEF file what its settings say.
- **`ConfiguredInOrder`**: wherever `set_configuration` breaks off, the tag has
  the options up to some point of the order 00 04 05 07 0A 0B and nothing of
  those after it; all of them once it has succeeded.
- **`MessageRecovered`, `CountersFresh`, `VectorsWhole`**: what one end
  encrypts the other decrypts; the digits of EncCtr are the number that the tag
  counts, through every carry and the wrap, with no counter or vector used twice
  within one round; and every byte of both randoms has its place in the vectors
  that the session keys are made from.
- **`VersionWhole`**: a version from an authenticated session consists of the
  three parts that the tag has sent, though only the last frame carries a MAC.
  Without authentication that holds only as long as the reader repeats no
  answer.
- **`ContainerRoundTrip`, `UrlReadsBack`, `KeysDistinct`, `StatusFaithful`**:
  the forms lose nothing: a container that parses is written back the same, a
  URL written over a longer one is read back as it was (any URL with `alloc`,
  one of up to `MaxString` bytes without), different inputs diversify to
  different keys, those that are padded and those that fill their blocks, and
  no status word of
  one framing passes for success in the other.

## Disagreements between code and documentation

Each is a run with `expect: violation`.

| run | property | statement | what the code does |
|---|---|---|---|
| `reset_retry` | `RetryAccepted` | reset with the same keys can be repeated, "a key that already equals zero can be changed to zero again" (`reset.rs:131`) | ChangeKey masks with the old key, which is taken to be the issued one; the tag refuses |
| `verify_race_replay` | `StrictlyGreater` | the counter "must be strictly greater than the stored one" (`verification.rs:117`) | get and set are two awaits; two overlapping calls accept one readout |
| `factory_check_stale_ef` | `EfFlagTrue` | `ef_selected` is "the currently selected EF File ID" (`session/mod.rs:129`) | `check_factory_state` selects the application through another session and leaves the field |
| `tamper_straddles_enc` | `TamperInPlainHalf` | the tamper status may overlap `EncFileData` "only if it fits entirely inside the first (plaintext) half" (`sdm.rs:39`) | only the end of the placeholder is compared; one that begins in front of the range is accepted |
| `uri_prefix` | `LongestMatch` | "Prefixes with a shared root … are checked longest-match first" (`sdm_url.rs:396`) | the table is searched in its order, in which `urn:` stands before `urn:epc:id:` and its kin |

Smaller ones that no run is about:

- `high_level/reset.rs:109` says that the AES fallback handles tags "partially
  provisioned before LRP mode was enabled"; Key 0 is changed last, so such a
  tag still has the zero key and refuses the derived one.
- A `reset` without a UID needs Key 1, which an interrupted reset has zeroed
  first, so that repeating it cannot finish.
- `session/authenticated.rs:94` says that "CmdCtr stays put" on a plain
  passthrough; the code advances it (line 133), and so does the tag.
- `session/authenticated_session.rs:331` says that the counter is "reset to
  zero on authentication"; NonFirst keeps it (`authenticated.rs:528`).
- `session/authenticated_session.rs:217`: "`length = 0` means entire file" does
  not go for full mode, which compares the length of the answer with that of
  the buffer.
- `types/tt_status.rs:56`: `is_tampered` is said to be true for "open or
  unknown"; it is true for open only.
- `types/configuration.rs:16`: an option that was not set leaves the tag
  "unchanged"; the capability bytes share one option of ten bytes, so that
  setting one of them writes the other.
- `check_version` compares the hardware type only.
- `session/mod.rs:129`: `ef_selected` is "the currently selected EF File ID". It
  is set after the answer to SELECT and not cleared before it is sent
  (`unauthenticated.rs:95`), so after a lost answer it still names the old file.
- `commands/read_data.rs:232` says that "the initial validate_request enforced
  `offset + length ≤ U24_MAX`"; the two are compared one by one. `FileAccess` has
  the offset wrap as the code has it, and no file is long enough for it to move
  a wrong byte.
- `commands/read_data.rs:114`: the buffer "must be at least the requested
  length". The plain read of a range in chunks (`authenticated.rs:147`) slices
  the buffer as it goes, so a short one ends in a panic after whole chunks
  have been read (`Panic` in `FileAccess`).
- `high_level/provision.rs:51` lists the verification of the originality
  signature before LRP mode; the code enables LRP mode first (line 203).
- `sdm_url.rs:152`: "`parse_ndef_uri` reconstructs the full URL". In a build
  without `alloc` it does so in 256 bytes, and `push_str` panics for a URL that
  fits a file of 256 bytes only because its prefix is abbreviated.
- `parse_ndef_uri` panics for an NLEN below 5.
- `Sdm::try_new` accepts a counter limit of 2^24 or more, which only the encoder
  refuses (`codec.rs:583`).

## Bounds

- `secure_messaging`: `MaxApdu` 8 (7 with a repeating reader): two handshakes
  of two APDUs and four more, or one and six: enough for a failed plain call
  followed by a second handshake and secured commands, for a GetVersion chain
  or a chunked transfer that is cut off, and for a NonFirst in between. `CtrMod`
  16 keeps CmdCtr from wrapping, as 2^16 does for any session in practice.
  `MaxChunks` 2: a first and a last chunk. Nine commands stand for the framing
  profiles.
- `provisioning`: two issuers and `MaxCalls` 4, so that the last call meets a
  tag that three calls of either issuer have left behind; the NDEF file takes
  one or two APDUs. The proofs hold for any number of either.
- `sdm_verification`: three tags, of which one mirrors no counter, two workers
  (symmetric), two taps of each, four calls: a replay needs one tag, two calls
  and one tap; a cross-talk of tags needs two. The proofs hold for any number.
- `file_access`: two files of 2 and 6 bytes; chunks of 6 (ISO, plain), 4 (MAC)
  and 3 (full) bytes for reads and 5, 4, 3 and 2 for writes, so that the longer
  file takes one to three chunks as the mode has it; `IsoLimit` 7 and `Field`
  12 for the 15 and 24 bits of an offset, just beyond the end of the file as
  far as the order of the numbers matters; offsets 0, 1, 5, 7 and 12, lengths 0,
  5, 7 and 12 and buffers of 0, 5 and 7 bytes, which lie on, before and behind
  each of those limits; five calls.
- `sdm`: a file of eight characters with placeholders of one to two, at
  every offset from 0 to 7, counters of two binary digits, prefixes that expand
  to none or two characters where the file has one, so that offsets move up and
  down; unmoved they are in the raw file. All rules compare ends of ranges, so all ways in which up to six
  ranges can lie to each other appear, as far as eight characters have room for
  them; a file in which everything fits without overlap takes eight. The
  constraint `Promising` stops at templates that are refused at their end
  whatever follows: they mix `{picc}` with `{uid}` or `{ctr}`, are longer than
  the file, start the MAC window behind the MAC, or have encrypted file data of
  no whole unit. Limits are none, 1, the
  largest number that has a wire form, and one more. Settings with a
  counter limit are not tapped, as the tag's counting to the limit is not
  modelled. `tamper_straddles_enc` takes nine characters and encrypted units of
  four.
- `wire_forms`: two changes of settings by the caller, around any number of
  calls of `configure_ndef` and `reset`; authenticated with Key 0 or 2, which
  put "free" or "Key 2" into any right; SDM parts of every kind of meta data.
  Three `with_*` calls and two of `set_configuration`. EncCtr of two digits to
  base 3, from every start value, over up to four messages of up to three
  blocks, which passes the end of the count. Three versions, so that an answer
  to an earlier one can be repeated. Containers of up to four
  entries with headers and entries sound and unsound; URLs of up to three
  tokens and one that does not fit, in both builds; without `alloc` strings of up
  to 8 bytes (`MaxString`), which a URL passes that fits the file only by its
  abbreviation. Keys with system identifiers of up to two bytes, with the byte
  that padding begins with among them, which are padded, and of three bytes,
  which fill both blocks of three and take the other subkey.

Deadlock is not checked anywhere: a caller may stop at any time, and every
bounded behaviour ends.

## Fairness

Only `CallReturns` needs any. `FairSpec` assumes weak fairness of the host's
steps within a call (`Send`, `Receive`), of the tag's answer, and of the
transport's error. The first is the executor polling the future that runs the
call; the second and third together say that `transmit` returns, either with
an answer or with an error, which every PC/SC and NFC stack guarantees by a
timeout and which the code relies on, having no timeout of its own. No
fairness is assumed of the caller: no call is ever bound to begin.

## Proofs

Checked by TLAPS, for every value of the constants. The assumptions are those
of the modules, which the runs evaluate, and those named here.

### `SecureMessaging_proofs.tla`

For every set of commands, number of APDUs, counter width and number of
chunks. All but `TypeCorrect` and `OwnCorrect` assume a reader that does not
repeat answers (`ReaderRepeats = FALSE`); with one that does, `CountersAgree`
and `ConfirmedInStep` are false, see above.

- `TypeCorrect`: `Spec => []TypeOK`, with or without a repeating reader.
  `TypeInv` adds to it how many APDUs a running call may still send
  (`CallBound`), without which the number of the next APDU could leave its
  range.
- `CountersCorrect`, `InStepCorrect`: `CountersAgree` and `InStepInv`.
- `ConfirmedCorrect`: `ConfirmedInStep`.
- `RejectionCorrect`: `NoSpuriousRejection`.
- `FreshCorrect`: `NoIvReuse`.
- `OwnCorrect`: `ConfirmedAnswerIsOwn`, with or without a repeating reader.

`CountersAgree` speaks of the time between calls and is not inductive: it says
nothing of an answer on its way or of the keys that a handshake is about to
install. `IndInv == TypeInv /\ InStepInv` is. Its parts say how many APDUs a
call may still send (`CallBound`), that CmdCtr never exceeds the APDUs sent and
so never wraps (`CtrBound`, from the assumption `MaxApdu < CtrMod`), which
session a call belongs to (`CallRuns`) and that what is on the wire is the
call's (`CallShape`), that a request says what the call is
about to do (`RequestShape`), that a proof comes with the keys that the host
will derive (`HandshakeShape`), that the two ends hold different keys only in
the middle of a handshake (`OneKey`), that an open GetVersion chain was opened
in step (`ChainShape`), and how far the counters are apart at each point of a
call (`InStep`). The proof has one lemma per action and, under it, one step per
part that the action can disturb.

`NoSpuriousRejection` needs `CoverShape` besides: a request in flight carries
the MAC that the session, as it is now, would make. `ConfirmedInStep` is a
fact about one step: the answers that are confirmed are those that `IndInv`
says were made in step.

`NoIvReuse` is about all vectors ever used. `IvInv` bounds that set by what the
two ends know now: keys are named after the APDU of their handshake, so the
keys that are about to be made are new (`KeyBound`, `ProofIvs`); the vectors
used under the session's key lie behind its counters, with the APDU in flight
the only one level with them (`HostIvs`, `TagIvs`). In AES this is about
CmdCtr, in LRP about EncCtr, where `EncInStep` says that the two ends use it in
turn.

With a reader that repeats answers most of `InStepInv` is lost: a call may take
an answer to an earlier one for its own, and the counters part. What is left is
`OwnInv`, which speaks of every answer the reader can still hand over. Each was
made under a key older than the APDU on the wire (`KeyAge`), so an answer under
the keys of the session was made in the session; and its MACt is over a CmdCtr
the host has passed, but for one, the answer to the APDU that waits
(`AnswersSpent`). That the PICC never makes a second MACt over the next CmdCtr
takes the MAC of the request, which it checks (`RequestShape`, `RequestOwn`),
and for the frames of GetVersion, whose requests have no MAC, that it has just
as many left as the host will still ask for, with CmdCtr where the host has it
(`ChainOwn`).

### `SdmVerification_proofs.tla`

For every set of tags and workers and any number of taps and calls.

- `TypeCorrect`, `NotAheadCorrect`, `JustifiedCorrect`: the three invariants
  of the run.
- `AcceptsOnceCorrect`: for readouts with a counter, the service implements `AcceptOnce` if the store is
  lent to one call at a time (`Exclusive = TRUE`). With a shared store it does
  not; that is the run `verify_race_replay`.

`ServiceInv` adds to the invariants that what a call carries between its awaits
comes from a tap of that tag, and has passed the replay check if it is about to
be stored (`CallsSound`), that the store holds nothing that has not
(`StoreReached`), and that with an exclusive store there is one call at a time,
for which what it has compared is still what the store holds (`OneCall`). With
`OneCall`, the step that stores a counter maps to the abstract acceptance.

### `Provisioning_proofs.tla`

For every set of issuers and any number of calls.

- `TypeCorrect`, `OkMeansDoneCorrect`, `VerifiedFirstCorrect`,
  `KeysInOrderCorrect`: the properties of the run. `VerifiedFirstCorrect` says
  of LRP mode only that it needs a chip of the right type, as the code does not
  keep more.
- `CustodyCorrect`: `provision` and `reset` implement `TagCustody`, whoever
  calls them in whichever order and wherever they break off.

`ProvInv` says what a call has found out and done on the way to its present
step (`ProvisionShape`, `ResetShape`), which is what makes the last step, the
one that changes Key 0, map to "this tag is complete" or "this tag is clean".
What earlier calls may have left is in `TagInv`.

### `FileAccess_proofs.tla`

For every set of files, limit of a chunk, offset, length, buffer and number of
calls, as long as the files fit the 15 bits of an ISO offset (`IsoLimit`) and
the offset field wraps no earlier than that (`IsoLimit <= Field`).

- `TypeCorrect`, `BytesCorrect`, `VerdictCorrect`: the three invariants of the
  run. `AuthCorrect`: its action property `AuthSurvives`, on a tag that may drop
  its authentication over any command that it refuses.

`RightBytes` speaks of what has been moved as a set; that the next chunk goes
on where the last one stopped is not in it. `TransferShape` says so: a transfer
under way has moved exactly its first `n` bytes and stands at `off + n`, which
fits the file. A chunk then moves the right bytes only if the tag reads the
file that the session means, which is `EfAgree`: a session that has not been
used again after a lost SELECT takes no EF for selected other than the tag
does, if the tag has any selected. A call that selects is never one of an
authenticated session (`OpenSession`). Hence every step that ends an
authentication on the tag, by a selection, a loss of power or a refusal, either
ends that of the session too or leaves the application deselected, but for a
refused call that only borrows its session: `AuthSurvives`. `CheckShape` says
what the factory check has read and ruled out when it is at its present stage.

### `TagConfiguration_proofs.tla`

For every set of values and any number of calls of either kind.

- `AppliedInOrder`: `ConfiguredInOrder`.

The invariant states what a configuration means without its bytes: which was
the last call of each name (`Reflects`: the bytes of each option are those that
the calls so far, whatever their order, add up to), and that a call of
`set_configuration` under way has brought the tag to what the options in front
of its place mean (`OnItsWay`). The lemmas of the module are about the last
element of a sequence with a property and about the bits and pairs of bytes
that the options consist of.

### `Personalisation_proofs.tla`

For every template that the library accepts, every sample of settings and any
number of edits.

- `EditsReadBack`, `RefusedForRights`: two action properties.
- `HonestContainer`: `ContainerHonest`.

The codec comes first: what is written of rights, access bits and SDM options
is read back (`RightsBack`, `SdmBack`, `SettingsBack`), and what is read and
written again is what was there (`SettingsOnce`), over all values. `PersInv`
then says that the tag's settings are always such bytes, that what a call has
read is still what the tag has (`ViewFresh`), that what it has made of it is
something the library can express (`ViewChanged`), and how far `configure_ndef`
and `reset` have come (`ConfigureDone`, `ResetDone`).

### `SdmReadout_proofs.tla`

For placeholders of any length, files of any size (the file fits the 24 bits of
an offset, `FileAssumption`), any base and number of digits of the counter, any
offsets, prefixes and templates.

- `TypeCorrect`: the planner stays in its buffer.
- `RereadCorrect`: settings that `try_new` accepts (`Sound`) have a wire form
  exactly if their limit has (`SendableIs`, as all offsets lie in the file), and
  survive it. `ReadBack`: the numbers that are written are
  those of the names in use, in one order, and the conditions on which the two
  ends write and read each number agree (`NumbersPaired`, `LayoutIs`).
- `RecoveredCorrect`, `TrueWhenOk`: what was mirrored is recovered, and what is
  reported was mirrored.

The two halves of the argument: `Exclusive` says that no two placeholders share
a character but for the tamper status in the encrypted data, from the rules of
`try_new` and what the types exclude; hence each is in the file as the tag has
written it (`MirrorAt`), a counter too, whose digits tell it (`DigitsTell`). A
MAC that fits was made under the right key of what was read (`MacTells`), so
that file data and, within the MAC window, the tamper status are the tag's,
damaged or not. A verifier that was moved reads in the URL what the unmoved one
reads in the file (`VerdictMoved`), is valid (`ValidMoved`), and can be moved as
long as the URL fits the file (`InReach`). `SdmInv` adds to the properties what
the planner has behind it (`PlanOk`), that settings are sound and, from a
template, lie within the URL (`ConfInv`).

### `WireForms_proofs.tla`

- `WholeVersion`: `VersionWhole`, for any number of versions and sessions and
  whatever answers the reader repeats. `ChainInv` says that every MAC the tag
  makes for the last frame is one of all three parts, and that with a reader
  that has not repeated anything the tag is at the frame the host asks for.
- `MessagesRecovered`, `FreshCounters`, `WholeVectors`: the three properties of
  the cipher suites, for messages of any number of blocks, any base and number
  of digits of EncCtr and any start of it. `SuiteInv` says that the counters
  used so far follow one another from a first one and end where both ends go on
  (`CountersInLine`), or, for AES, that each vector is of a message of its own
  (`IvsOfMessages`). The lemmas say that `Inc`, which carries by hand, counts
  (`IncCounts`), that a counter of that many digits stands for one number
  (`DigitsDiffer`), and that CBC is undone (`CbcRecovers`).
- `ContainersReadBack`, `UrlsReadBack`, `KeysApartCorrect`, `StatusCorrect`:
  the forms, for any bytes, URLs, block sizes and status words; URLs with
  `alloc` without limit, without it up to any `MaxString`.
- `SettingsCorrect`, `OrderCorrect`, `VersionCorrect`, `SuiteCorrect`: the
  properties of the parts as properties of the one specification that the run
  checks.

Chains of blocks, digits and powers are recursive functions. What such a
function is, and what it computes, needs an induction. The induction theorems
of the library take an operator as a parameter, which no installed prover can
instantiate; here `Induction` states the principle for *sets* of numbers,
derived from the well-foundedness of the order on them, and each use of it
defines the set of numbers for which its claim holds. A recursive function is
shown to exist by the same means.

### Only model-checked

`CallReturns` alone, as liveness is out of the prover's reach.

## What is not modelled

- The arithmetic of cryptography: the block ciphers of AES and LRP, CMAC, the
  curve of the originality signature. Ciphers are symbols that are one to one.
- The wrap of CmdCtr at 2^16: after 65,536 commands of one transaction its
  values come back under the same keys. No run and no proof reaches it.
- The bytes of a template: UTF-8 and escapes are tokens.
- The fields within a version, a UID or a tamper status, which other modules
  compare as values.
- `start` and `decrypt_picc_data` of the SDM verifier.
- The order in which a shared counter store applies a `set` whose call has
  been dropped and that arrives late: a property of the store.
- Transports, the bindings for other languages, examples, command-line tools.

## Plan

Built so far, in this order: `SecureMessaging` with its proofs, `Provisioning`
with `TagCustody`, `SdmVerification` with `AcceptOnce`, `SdmSettings`,
`FileSettings`, `SdmUrl` and `SdmReadout`; then `FileAccess` with
`FactoryCheck`, and the parts of `WireForms`; then the proofs of
`SecureMessaging`, `SdmVerification` and `Provisioning` with their refinements;
then those of `FileAccess`, of everything in `WireForms`, and of `SdmReadout`.

What is left:

1. `FileAccess` composed with `SecureMessaging`, so that the counters of the
   chunks and their bytes are in one model.
2. CmdCtr with its wrap, and the vectors it repeats.
