--------------------------- MODULE DataEncryption ---------------------------
(***************************************************************************)
(* isProtected (src/vbaproject/read.go) and DecryptData, which it calls    *)
(* (src/ovba/encryption.go), byte by byte.  The input is a record: caller  *)
(* says which of the two is called, text what the CMG field holds, raw the *)
(* bytes, and made what raw is an encryption of, [key, ignored, data], as  *)
(* a sequence of at most one.  DecryptData is exported and also takes      *)
(* structures that isProtected would turn away by their length.            *)
(***************************************************************************)
EXTENDS RecordBytes

CONSTANT XorByte(_, _)   \* a ^ b of bytes

ASSUME XorAssumption ==
  \A a, b \in Byte :
    /\ XorByte(a, b) \in Byte /\ XorByte(a, b) = XorByte(b, a)
    /\ XorByte(a, XorByte(a, b)) = b

VARIABLES
  enc,        \* input: [caller, text, raw, made]
  verdict,    \* "idle", "called", "decrypt", then the result
  pos,        \* bytes of raw that were read
  unencByte1, encByte1, encByte2,
  decrypted   \* the bytes decrypted so far: ignored ones, length, data

cipher  == << unencByte1, encByte1, encByte2 >>
encVars == << enc, verdict, pos, cipher, decrypted >>

Raw  == enc.raw
Seed == Raw[1]

\* (seed & 6) / 2
ignoredLen(seed) == (seed \div 2) % 4

Returns(result) ==
  /\ verdict' = result
  /\ UNCHANGED << enc, pos, cipher, decrypted >>

-----------------------------------------------------------------------------
(***************************************************************************)
(* isProtected up to its call of DecryptData.                              *)
(***************************************************************************)

Guarded(text) ==
  verdict = "called" /\ enc.caller = "isProtected" /\ enc.text = text

NoRecord == Guarded("empty") /\ Returns("clear")

NotHex == Guarded("other") /\ Returns("error")

LengthFits == Len(Raw) >= 11 /\ Len(Raw) = 3 + ignoredLen(Seed) + 4 + 4

BadLength == Guarded("hex") /\ ~LengthFits /\ Returns("error")

-----------------------------------------------------------------------------
(***************************************************************************)
(* DecryptData.                                                            *)
(***************************************************************************)

Entered ==
  /\ verdict = "called"
  /\ enc.caller = "isProtected" => enc.text = "hex" /\ LengthFits

\* The head is there, and the version is 2.
HeadFits == Len(Raw) >= 3 /\ XorByte(Seed, Raw[2]) = 2

BadHead == Entered /\ ~HeadFits /\ Returns("error")

Begin ==
  /\ Entered /\ HeadFits
  /\ verdict' = "decrypt"
  /\ pos' = 3
  /\ unencByte1' = XorByte(Seed, Raw[3])
  /\ encByte1' = Raw[3]
  /\ encByte2' = Raw[2]
  /\ UNCHANGED << enc, decrypted >>

\* The bytes before the data: IgnoredEnc and LengthEnc.
Lead == ignoredLen(Seed) + 4

dataLen == le32(Slice(decrypted, Lead - 4, Lead))

InLead == Len(decrypted) < Lead

\* The length, once it is known, does not exceed what is left of the input.
LengthKept == ~InLead => dataLen <= Len(Raw) - 3 - Lead

Goal == IF InLead THEN Lead ELSE Lead + dataLen

Wanted == verdict = "decrypt" /\ LengthKept /\ Len(decrypted) < Goal

\* Mutant of Unenc: the last byte of the input, not the one before it.
UnencSwapped == XorByte(Raw[pos + 1], (encByte1 + unencByte1) % Base)
Unenc == XorByte(Raw[pos + 1], (encByte2 + unencByte1) % Base)

DecryptNext ==
  /\ Wanted
  /\ pos < Len(Raw)
  /\ pos' = pos + 1
  /\ decrypted' = Append(decrypted, Unenc)
  /\ encByte2' = encByte1
  /\ encByte1' = Raw[pos + 1]
  /\ unencByte1' = Unenc
  /\ UNCHANGED << enc, verdict >>

EndsEarly == Wanted /\ pos >= Len(Raw) /\ Returns("error")

Overruns == verdict = "decrypt" /\ ~LengthKept /\ Returns("error")

-----------------------------------------------------------------------------
(***************************************************************************)
(* The results.                                                            *)
(***************************************************************************)

out == Slice(decrypted, Lead, Len(decrypted))

Decrypted(caller) ==
  /\ verdict = "decrypt" /\ LengthKept /\ Len(decrypted) = Goal
  /\ enc.caller = caller

DataReturned == Decrypted("DecryptData") /\ Returns("data")

BadState == Decrypted("isProtected") /\ Len(out) # 4 /\ Returns("error")

\* fUserProtected, fHostProtected and fVBAProtected are the three low bits.
Locked(state) == state[1] % 8 # 0

StateReturned ==
  /\ Decrypted("isProtected") /\ Len(out) = 4
  /\ Returns(IF Locked(out) THEN "locked" ELSE "clear")

EncNext ==
  \/ NoRecord \/ NotHex \/ BadLength \/ BadHead \/ Begin \/ DecryptNext
  \/ EndsEarly \/ Overruns \/ DataReturned \/ BadState \/ StateReturned

-----------------------------------------------------------------------------
(***************************************************************************)
(* External: the encryption of the specification of the format, which the  *)
(* host applies, and the tests with it.  ignored are the bytes that stand  *)
(* before the length.                                                      *)
(***************************************************************************)

Encrypted(seed, projKey, clear) ==
  LET unenc(k) == IF k = 0 THEN projKey ELSE clear[k]
      raw[j \in 1 .. Len(clear) + 3] ==
        CASE j = 1 -> seed
          [] j = 2 -> XorByte(seed, 2)
          [] j = 3 -> XorByte(seed, projKey)
          [] OTHER -> XorByte(clear[j - 3], (raw[j - 2] + unenc(j - 4)) % Base)
  IN  raw

Structure(seed, projKey, ignored, data) ==
  Encrypted(seed, projKey, ignored \o LE(Len(data), 4) \o data)

\* What is known of an input.
IsRecord(r) ==
  /\ r.caller \in {"isProtected", "DecryptData"} /\ r.text \in {"empty", "other", "hex"}
  /\ r.raw \in Seq(Byte)
  /\ \A m \in ToSet(r.made) :
       /\ r.text = "hex"
       /\ r.caller = "isProtected" => Len(m.data) = 4
       /\ m.key \in Byte /\ m.data \in Seq(Byte) /\ Len(m.data) < Base * Base * Base * Base
       /\ m.ignored \in Seq(Byte) /\ Len(m.ignored) = ignoredLen(r.raw[1])
       /\ r.raw = Structure(r.raw[1], m.key, m.ignored, m.data)

-----------------------------------------------------------------------------
(***************************************************************************)
(* Properties.                                                             *)
(***************************************************************************)

\* A protection record is never misread.  Whatever is accepted is, byte for
\* byte, an encryption of what was returned, of four bytes if the record was
\* CMG, and every encryption is accepted and returned as what went into it;
\* a project counts as locked exactly when one of the three bits was set.
ProtectionRead ==
  /\ verdict \in {"clear", "locked", "data"} /\ enc.text = "hex" =>
       /\ Encrypted(Seed, XorByte(Seed, Raw[3]), decrypted) = Slice(Raw, 0, pos)
       /\ Slice(decrypted, Lead - 4, Lead) = LE(Len(out), 4)
       /\ enc.caller = "isProtected" => Len(out) = 4 /\ pos = Len(Raw)
  /\ \A m \in ToSet(enc.made) :
       /\ verdict # "error"
       /\ verdict = "data" => out = m.data
       /\ verdict \in {"clear", "locked"} => (verdict = "locked" <=> Locked(m.data))
=============================================================================
