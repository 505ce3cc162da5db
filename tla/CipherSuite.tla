------------------------------ MODULE CipherSuite ------------------------------
(***************************************************************************)
(* The two cipher suites of a session: the vectors session keys are made   *)
(* from, CBC with an IV from direction and command counter (AES), and      *)
(* LRICB with a counter of its own that every block advances (LRP).        *)
(*                                                                         *)
(* Ciphers are symbolic.  A block is a set of terms, and the exclusive or  *)
(* of blocks is the symmetric difference.  The tag, external, does what    *)
(* the library says of the standard, and counts in numbers.                *)
(***************************************************************************)
EXTENDS Naturals, Sequences, FiniteSets

CONSTANTS
  Base, Width,    \* a counter has Width digits: 8 digits of 16 in the code
  MaxLength,      \* blocks in one message
  MaxMessages     \* bound: messages in a session

ASSUME SuiteAssumption ==
  /\ Base \in Nat \ {0, 1} /\ Width \in Nat \ {0}
  /\ MaxLength \in Nat \ {0} /\ MaxMessages \in Nat

VARIABLES
  suite,   \* of the session: mode, EncCtr as digits, inputs of its ciphers so far
  peer,    \* external: the tag's counter
  link     \* the messages so far, and the last one: what went in and came out

suiteVars == <<suite, peer, link>>

-----------------------------------------------------------------------------
(* Session vectors: 32 bytes, of which those of the randoms are named *)

Const(v)  == {<<"const", v>>}
RndA(i)   == {<<"a", i>>}
RndB(i)   == {<<"b", i>>}
Xor(x, y) == (x \ y) \union (y \ x)
As(from, to) == [i \in 1 .. (to - from) |-> RndA(from + i - 1)]
Bs(from, to) == [i \in 1 .. (to - from) |-> RndB(from + i - 1)]

\* Deviation: the mixed bytes of the first random start with its first.
MixedFromFirst == [i \in 1 .. 6 |-> Xor(RndA(i - 1), RndB(i - 1))]

Mixed == [i \in 1 .. 6 |-> Xor(RndA(1 + i), RndB(i - 1))]
Fixed == <<Const(0), Const(1), Const(0), Const(128)>>

Randoms == As(0, 2) \o Mixed \o Bs(6, 16) \o As(8, 16)

SessionVectorAes(label) == <<Const(label[1]), Const(label[2])>> \o Fixed \o Randoms
SessionVectorLrp == Fixed \o Randoms \o <<Const(150), Const(105)>>

\* `derive`: the vectors the keys of encryption and of the MAC come from, and
\* the place of the key among those that LRP makes of one vector.
KeyVectors(mode) ==
  IF mode = "aes" THEN [enc |-> <<SessionVectorAes(<<165, 90>>), 0>>,
                        mac |-> <<SessionVectorAes(<<90, 165>>), 0>>]
  ELSE [enc |-> <<SessionVectorLrp, 1>>, mac |-> <<SessionVectorLrp, 0>>]

-----------------------------------------------------------------------------
(* Block ciphers *)

E(k, x) == {<<"E", k, x>>}
D(k, x) == IF \E t \in x : x = {t} /\ t[1] = "E" /\ t[2] = k
             THEN (CHOOSE t \in x : TRUE)[3] ELSE {<<"D", k, x>>}

\* `iv`: the label of the direction, TI and the command counter, encrypted.
Iv(direction, cmdCtr) == E("enc", {<<"iv", direction, cmdCtr>>})

AesCbcEncrypt(iv, blocks) ==
  LET c[i \in 0 .. Len(blocks)] == IF i = 0 THEN iv ELSE E("enc", Xor(blocks[i], c[i - 1]))
  IN  [i \in DOMAIN blocks |-> c[i]]

\* Deviation: a block is combined with the plaintext before it.
AesCbcDecryptPlain(iv, blocks) ==
  LET p[i \in 0 .. Len(blocks)] == IF i = 0 THEN iv ELSE Xor(D("enc", blocks[i]), p[i - 1])
  IN  [i \in DOMAIN blocks |-> p[i]]

AesCbcDecrypt(iv, blocks) ==
  [i \in DOMAIN blocks |-> Xor(D("enc", blocks[i]), IF i = 1 THEN iv ELSE blocks[i - 1])]

\* Deviation: no carry.
IncNoCarry(digits) ==
  [digits EXCEPT ![Len(digits)] = (@ + 1) % Base]

\* `inc`: the last digit is the lowest; after the highest value comes zero.
Inc(digits) ==
  [i \in DOMAIN digits |->
     IF \A j \in (i + 1) .. Len(digits) : digits[j] = Base - 1
       THEN (digits[i] + 1) % Base ELSE digits[i]]

After(digits, n) ==
  LET ctr[i \in 0 .. n] == IF i = 0 THEN digits ELSE Inc(ctr[i - 1]) IN ctr[n]

\* `eval_lrp` makes a key of its own of each counter.
LricbEncrypt(digits, blocks) ==
  [i \in DOMAIN blocks |-> E(After(digits, i - 1), blocks[i])]
LricbDecrypt(digits, blocks) ==
  [i \in DOMAIN blocks |-> D(After(digits, i - 1), blocks[i])]

-----------------------------------------------------------------------------
(* Messages *)

Power[k \in 0 .. Width] == IF k = 0 THEN 1 ELSE Base * Power[k - 1]

Modulus == Power[Width]
Digits(n) == [i \in 1 .. Width |-> (n \div Power[Width - i]) % Base]

\* The blocks of the m-th message; the even ones are commands.
Plain(m, n) == [i \in 1 .. n |-> {<<"data", m, i>>}]
Direction(m) == IF m % 2 = 0 THEN "command" ELSE "response"
CmdCtr(m)    == (m + 1) \div 2

\* External: the other end.
TagEncrypts(m, blocks) ==
  IF suite.mode = "aes" THEN AesCbcEncrypt(Iv(Direction(m), CmdCtr(m)), blocks)
  ELSE [i \in DOMAIN blocks |-> E(Digits((peer + i - 1) % Modulus), blocks[i])]
TagDecrypts(m, blocks) ==
  IF suite.mode = "aes"
    THEN [i \in DOMAIN blocks |->
            Xor(D("enc", blocks[i]), IF i = 1 THEN Iv(Direction(m), CmdCtr(m)) ELSE blocks[i - 1])]
  ELSE [i \in DOMAIN blocks |-> D(Digits((peer + i - 1) % Modulus), blocks[i])]

Encrypt(m, blocks) ==
  IF suite.mode = "aes" THEN AesCbcEncrypt(Iv(Direction(m), CmdCtr(m)), blocks)
  ELSE LricbEncrypt(suite.ctr, blocks)
Decrypt(m, blocks) ==
  IF suite.mode = "aes" THEN AesCbcDecrypt(Iv(Direction(m), CmdCtr(m)), blocks)
  ELSE LricbDecrypt(suite.ctr, blocks)

\* What the first block of a message is combined with, or each of its blocks
\* is encrypted under.
Inputs(m, n) ==
  IF suite.mode = "aes" THEN <<<<Direction(m), CmdCtr(m)>>>>
  ELSE [i \in 1 .. n |-> After(suite.ctr, i - 1)]

Derive(mode, start) ==
  /\ suite.mode = "none"
  /\ suite' = [mode |-> mode, vectors |-> KeyVectors(mode), ctr |-> Digits(start), used |-> << >>]
  /\ peer' = start
  /\ UNCHANGED link

Processed(n) ==
  /\ suite' = [suite EXCEPT !.ctr = IF suite.mode = "lrp" THEN After(@, n) ELSE @,
                            !.used = @ \o Inputs(link.count, n)]
  /\ peer' = (peer + n) % Modulus
  /\ link' = [link EXCEPT !.count = @ + 1,
                          !.sent = Plain(link.count, n),
                          !.got = IF Direction(link.count) = "command"
                                    THEN TagDecrypts(link.count, Encrypt(link.count, Plain(link.count, n)))
                                    ELSE Decrypt(link.count, TagEncrypts(link.count, Plain(link.count, n)))]

\* A command or a response of n blocks; a command without data is not
\* encrypted and takes no counter of the suite.
Message(n) ==
  /\ suite.mode # "none" /\ link.count < MaxMessages
  /\ Processed(n)
NoData ==
  /\ suite.mode # "none" /\ link.count < MaxMessages
  /\ link' = [link EXCEPT !.count = @ + 1, !.sent = << >>, !.got = << >>]
  /\ UNCHANGED <<suite, peer>>

\* Data that is not a positive number of blocks gives `None` and advances
\* nothing.
BadLength ==
  /\ suite.mode # "none" /\ link.refused = FALSE
  /\ link' = [link EXCEPT !.refused = TRUE]
  /\ UNCHANGED <<suite, peer>>

InitSuite ==
  /\ suite = [mode |-> "none", vectors |-> << >>, ctr |-> << >>, used |-> << >>]
  /\ peer = 0
  /\ link = [count |-> 0, sent |-> << >>, got |-> << >>, refused |-> FALSE]

\* A session starts at zero; the others are those of a long one.
SuiteNext ==
  \/ \E start \in 0 .. (Modulus - 1) : Derive("lrp", start)
  \/ Derive("aes", 0)
  \/ \E n \in 1 .. MaxLength : Message(n)
  \/ NoData \/ BadLength

-----------------------------------------------------------------------------
(* Properties *)

\* What one end encrypts, the other decrypts, in both directions and for any
\* number of blocks: the chaining of CBC and the counters of LRICB fit.
MessageRecovered == link.got = link.sent

\* EncCtr steps with the blocks: at every moment it is the number that the tag
\* counts, past each carry and past the end, and no counter (LRP) and no IV
\* (AES) is used twice before all have been used.
CountersFresh ==
  suite.mode # "none" =>
    /\ suite.mode = "lrp" => suite.ctr = Digits(peer)
    /\ \A i, j \in DOMAIN suite.used :
         i # j /\ (suite.mode = "lrp" => i < j + Modulus /\ j < i + Modulus)
           => suite.used[i] # suite.used[j]

\* Every byte of both randoms has its place in the 32 bytes of a session
\* vector, just once, so that each end's random alone makes the keys fresh; the
\* keys of encryption and of the MAC differ.
VectorsWhole ==
  suite.mode # "none" =>
    /\ suite.vectors["enc"] # suite.vectors["mac"]
    /\ \A v \in {suite.vectors["enc"][1], suite.vectors["mac"][1]} :
         /\ Len(v) = 32
         /\ \A r \in {"a", "b"}, i \in 0 .. 15 :
              Cardinality({j \in 1 .. 32 : <<r, i>> \in v[j]}) = 1
=============================================================================
