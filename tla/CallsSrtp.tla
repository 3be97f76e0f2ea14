------------------------------ MODULE CallsSrtp ------------------------------
(***************************************************************************)
(* The crypto attributes of a media description: the checks they must      *)
(* pass, how they are written into a line and read back, and what          *)
(* GStreamer is told of them.                                              *)
(*                                                                         *)
(* A line is split into its fields already: the tag, the name of the suite *)
(* and the key parameters.  A key is some base64 text that decodes to      *)
(* "size" bytes.  The number 0 stands for any text that is not a positive  *)
(* number or starts with a zero.                                           *)
(***************************************************************************)
EXTENDS Integers, Sequences, FiniteSets

CONSTANTS
  MaxKeys,     \* 16 in the code: master keys of an attribute
  MaxMkiLen,   \* 128 in the code: bytes of a master key identifier
  MaxPow2      \* 48 in the code, SRTP_MAX_LIFETIME_POW2

\* The identifiers this program makes are of 4 bytes.
ASSUME SrtpAssumption ==
  MaxKeys \in Nat \ {0} /\ MaxMkiLen \in Nat /\ MaxMkiLen >= 4 /\ MaxPow2 \in Nat

SrtpSuite == {"AES_CM_128_SHA1_32", "AES_CM_128_SHA1_80", "F8_128_HMAC_SHA1_32",
              "AEAD_AES_128_GCM", "AEAD_AES_256_GCM", "AES_192_CM_SHA1_32",
              "AES_192_CM_SHA1_80", "AES_256_CM_SHA1_32", "AES_256_CM_SHA1_80", "UNKNOWN"}

\* get_key_size_for_suite(): key and salt, in bytes.
KeySize(suite) ==
  CASE suite \in {"AES_CM_128_SHA1_32", "AES_CM_128_SHA1_80"} -> 30
    [] suite \in {"AES_192_CM_SHA1_32", "AES_192_CM_SHA1_80"} -> 38
    [] suite \in {"AES_256_CM_SHA1_32", "AES_256_CM_SHA1_80"} -> 46
    [] suite = "AEAD_AES_128_GCM" -> 28
    [] suite = "AEAD_AES_256_GCM" -> 44
    [] OTHER -> 0

\* The name the code writes for a suite.
WrittenName ==
  [AES_CM_128_SHA1_32  |-> "AES_CM_128_HMAC_SHA1_32",
   AES_CM_128_SHA1_80  |-> "AES_CM_128_HMAC_SHA1_80",
   AES_192_CM_SHA1_32  |-> "AES_196_CM_HMAC_SHA1_32",
   AES_192_CM_SHA1_80  |-> "AES_196_CM_HMAC_SHA1_80",
   AES_256_CM_SHA1_32  |-> "AES_256_CM_HMAC_SHA1_32",
   AES_256_CM_SHA1_80  |-> "AES_256_CM_HMAC_SHA1_80",
   F8_128_HMAC_SHA1_32 |-> "F8_128_HMAC_SHA1_80",
   AEAD_AES_128_GCM    |-> "AEAD_AES_128_GCM",
   AEAD_AES_256_GCM    |-> "AEAD_AES_256_GCM",
   UNKNOWN             |-> "none"]

\* The suites whose names the code reads.
ReadSuites == {"AES_CM_128_SHA1_32", "AES_CM_128_SHA1_80",
               "AES_256_CM_SHA1_32", "AES_256_CM_SHA1_80"}

\* A mutant of NamedSuite: every name that is written is read.
NamedSuiteAny(name) ==
  IF \E s \in SrtpSuite : WrittenName[s] = name
  THEN CHOOSE s \in SrtpSuite : WrittenName[s] = name ELSE "UNKNOWN"

NamedSuite(name) ==
  IF \E s \in ReadSuites : WrittenName[s] = name
  THEN CHOOSE s \in ReadSuites : WrittenName[s] = name ELSE "UNKNOWN"

-----------------------------------------------------------------------------
(* An attribute: [tag, suite, keys], its keys [key, life, mki, mkiLen].     *)

NoAttr == [tag |-> 0, suite |-> "UNKNOWN", keys |-> <<>>]

Unlimited == [kind |-> "unset", n |-> 0]

LifeInRange(life) ==
  CASE life.kind = "decimal" -> life.n < 2^MaxPow2
    [] life.kind = "power"   -> life.n < MaxPow2
    [] OTHER -> TRUE

HasMki(k) == k.mki # 0 \/ k.mkiLen # 0

\* validate_crypto_attribute(): a check of the keys one by one finds a fault
\* exactly when there is one.
Valid(a) ==
  LET ks == a.keys
      n  == Len(ks)
      needMki == n > 1 \/ HasMki(ks[1])
  IN  /\ a.tag > 0 /\ a.tag < 1000000000
      /\ KeySize(a.suite) # 0
      /\ n \in 1..MaxKeys
      /\ needMki => ks[1].mkiLen \in 1..MaxMkiLen
      /\ \A i \in 1..n :
           /\ ks[i].key.size = KeySize(a.suite)
           /\ LifeInRange(ks[i].life)
           /\ needMki => ks[i].mkiLen = ks[1].mkiLen /\ ks[i].mki # 0
           /\ \A j \in 1..(i - 1) :
                ks[i].key # ks[j].key /\ (needMki => ks[i].mki # ks[j].mki)

-----------------------------------------------------------------------------
(* Reading.  A field after the key holds a colon and two numbers, or one    *)
(* number, "2^" before it or not.                                           *)

\* Which field, if any, is the lifetime, and which one the MKI.
LifeIndex(fields) ==
  CASE Len(fields) = 1 -> IF fields[1].colon THEN 0 ELSE 1
    [] Len(fields) = 2 -> 1
    [] OTHER -> 0

MkiIndex(fields) ==
  CASE Len(fields) = 1 -> IF fields[1].colon THEN 1 ELSE 0
    [] Len(fields) = 2 -> 2
    [] OTHER -> 0

\* Whether a key parameter can be read; its MKI is looked at when needed only.
KeyReads(info, needMki) ==
  LET fields == info.fields
      life == LifeIndex(fields)
      mki  == MkiIndex(fields)
  IN  /\ info.inline
      /\ Len(fields) <= 2
      /\ life # 0 => ~fields[life].colon /\ fields[life].n > 0
      /\ needMki =>
           /\ mki # 0
           /\ fields[mki].colon /\ fields[mki].n > 0 /\ fields[mki].len \in 1..MaxMkiLen

KeyRead(info, needMki) ==
  LET life == LifeIndex(info.fields)
      mki  == MkiIndex(info.fields)
  IN  [key    |-> info.key,
       life   |-> IF life = 0 THEN Unlimited
                  ELSE [kind |-> IF info.fields[life].power THEN "power" ELSE "decimal",
                        n    |-> info.fields[life].n],
       mki    |-> IF needMki THEN info.fields[mki].n ELSE 0,
       mkiLen |-> IF needMki THEN info.fields[mki].len ELSE 0]

\* calls_srtp_parse_sdp_crypto_attribute(): NoAttr when it fails.
Parse(line) ==
  LET n == Len(line.keys)
      attr == [tag |-> line.tag, suite |-> NamedSuite(line.suite),
               keys |-> [i \in 1..n |-> KeyRead(line.keys[i], n > 1)]]
  IN  IF /\ line.tag > 0 /\ line.tag < 1000000000
         /\ n <= MaxKeys
         /\ \A i \in 1..n : KeyReads(line.keys[i], n > 1)
         /\ Valid(attr)
      THEN attr ELSE NoAttr

-----------------------------------------------------------------------------
(* Writing, and what is told to GStreamer.                                  *)

Field(colon, power, n, len) == [colon |-> colon, power |-> power, n |-> n, len |-> len]

\* calls_srtp_print_sdp_crypto_attribute(), for a valid attribute.
KeyWritten(k) ==
  [inline |-> TRUE, key |-> k.key,
   fields |-> (IF k.life.kind = "unset" THEN <<>>
               ELSE <<Field(FALSE, k.life.kind = "power", k.life.n, 0)>>)
              \o (IF k.mki > 0 THEN <<Field(TRUE, FALSE, k.mki, k.mkiLen)>> ELSE <<>>)]

PrintAttribute(a) ==
  [tag |-> a.tag, suite |-> WrittenName[a.suite],
   keys |-> [i \in DOMAIN a.keys |-> KeyWritten(a.keys[i])]]

\* calls_srtp_crypto_get_srtpenc_params() knows the suite, as
\* calls_srtp_crypto_get_srtpdec_params() does.
Encodable(a) ==
  a.suite \in {"AES_CM_128_SHA1_32", "AES_CM_128_SHA1_80",
               "AES_256_CM_SHA1_32", "AES_256_CM_SHA1_80"}

\* on_srtpdec_request_key(): a key for the packets of the peer.
Decodable(a) == Encodable(a) /\ Len(a.keys) = 1 /\ a.keys[1].mki = 0

\* calls_srtp_crypto_attribute_init_keys(), of keys that differ.
InitKeys(tag, suite, n) ==
  [tag |-> tag, suite |-> suite,
   keys |-> [i \in 1..n |->
               [key |-> [id |-> i, size |-> KeySize(suite)], life |-> Unlimited,
                mki |-> IF n > 1 THEN i ELSE 0, mkiLen |-> IF n > 1 THEN 4 ELSE 0]]]

-----------------------------------------------------------------------------
(* The attributes and lines the properties range over.                      *)

SomeFields ==
  LET f == [colon : {FALSE}, power : BOOLEAN, n : {0, 1, MaxPow2}, len : {0}]
             \union [colon : {TRUE}, power : {FALSE}, n : {0, 1, 2}, len : {0, 4, MaxMkiLen + 1}]
  IN  {<<>>} \union {<<x>> : x \in f} \union {<<x, y>> : x, y \in f}

KeyOf(suite, ids) == [id : ids, size : {KeySize(suite)}]

LinesOf(suite, infos) ==
  [tag : {0, 1}, suite : {WrittenName[suite]}, keys : infos]

OneKeyLines(suite) ==
  LinesOf(suite, {<<k>> : k \in [inline : BOOLEAN, key : [id : {1}, size : {KeySize(suite), 1}],
                                 fields : SomeFields]})

\* Two keys, each with an MKI or without one, and with a lifetime or not.
TwoKeyLines(suite) ==
  LET fs == {<<>>, <<Field(TRUE, FALSE, 1, 4)>>, <<Field(TRUE, FALSE, 2, 4)>>, <<Field(FALSE, TRUE, 1, 0)>>,
             <<Field(FALSE, FALSE, 2, 0), Field(TRUE, FALSE, 2, 4)>>, <<Field(TRUE, FALSE, 2, 5)>>}
      ks == [inline : {TRUE}, key : KeyOf(suite, {1, 2}), fields : fs]
  IN  LinesOf(suite, {<<a, b>> : a, b \in ks})

SomeLines == UNION {OneKeyLines(s) \union TwoKeyLines(s) : s \in SrtpSuite}

-----------------------------------------------------------------------------
(* A line on its way: it is read, and what was read is written again, as a  *)
(* peer does that answers with the attribute it chose.                      *)

VARIABLES
  line,   \* the line on the wire
  attr    \* the attribute that was read from it

srtpVars == <<line, attr>>

\* Lines of any peer, and those of the attributes this program generates.
SrtpInit ==
  /\ line \in SomeLines \union
       {PrintAttribute(InitKeys(1, s, n)) : s \in ReadSuites, n \in 1..MaxKeys}
  /\ attr = NoAttr

ReadLine == attr = NoAttr /\ attr' = Parse(line) /\ attr' # NoAttr /\ UNCHANGED line

WriteLine == attr # NoAttr /\ line' = PrintAttribute(attr) /\ attr' = NoAttr

SrtpNext == ReadLine \/ WriteLine

\* What is read can be written, so that it is read as the same attribute; it can
\* be encrypted for, and decrypted if it has one key; and no line of this
\* program's own making is refused (calls_srtp_parse_sdp_crypto_attribute,
\* calls_srtp_print_sdp_crypto_attribute, and what GStreamer is told).
AttributesReadBack ==
  /\ attr # NoAttr =>
       /\ Parse(PrintAttribute(attr)) = attr
       /\ Encodable(attr) /\ (Len(attr.keys) = 1 => Decodable(attr))
  /\ \A s \in ReadSuites, n \in 1..MaxKeys :
       line = PrintAttribute(InitKeys(1, s, n)) => Parse(line) = InitKeys(1, s, n)
=============================================================================
