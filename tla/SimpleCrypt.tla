---------------------------- MODULE SimpleCrypt ------------------------------
(***************************************************************************)
(* The class that Settings reads the Bugzilla password with.  A byte, and  *)
(* the key, is the set of its bits that are set.  Base64, UTF-8 and the    *)
(* compression of long texts are left out; a checksum and a hash are       *)
(* parities of some of the text's bits.                                    *)
(***************************************************************************)
EXTENDS Integers, Sequences, FiniteSets

CONSTANTS Width, KeyBytes        \* bits of a byte, bytes of the key

ASSUME SimpleCryptAssumption == {Width, KeyBytes} \subseteq Nat \ {0}

Bit == 0..(Width - 1)
Byte == SUBSET Bit
Mode == {"none", "checksum", "hash"}

\* The operator ^ of two bytes.
Xor(a, b) == (a \ b) \cup (b \ a)

splitKey(key) == [i \in 1..KeyBytes |-> {b \in Bit : (i - 1) * Width + b \in key}]

\* m_keyParts.at( pos % 8 )
Part(parts, i) == parts[((i - 1) % KeyBytes) + 1]

Length(mode) == CASE mode = "none" -> 0 [] mode = "checksum" -> 2 [] mode = "hash" -> 3

\* qChecksum and QCryptographicHash.
Integrity(mode, ba) ==
  [i \in 1..Length(mode) |->
     {b \in Bit : Cardinality({j \in DOMAIN ba : (b + i * j) % Width \in ba[j]}) % 2 = 1}]

\* Each byte is XORed with the key's and with the last one that was written.
encryptToByteArray(plaintext, key, random, mode) ==
  LET ba == <<random>> \o Integrity(mode, plaintext) \o plaintext
      loop[i \in 0..Len(ba)] ==
        IF i = 0 THEN {} ELSE Xor(Xor(ba[i], Part(splitKey(key), i)), loop[i - 1])
  IN [version |-> 3, flags |-> mode, ba |-> [i \in DOMAIN ba |-> loop[i]]]

\* Faulty variant: the byte that is decrypted goes on, not the one that was read.
UnchainPlain(ba, parts) ==
  LET loop[i \in 0..Len(ba)] ==
        IF i = 0 THEN {} ELSE Xor(Xor(ba[i], loop[i - 1]), Part(parts, i))
  IN [i \in DOMAIN ba |-> loop[i]]

\* The loop of decryptToByteArray.
Unchain(ba, parts) ==
  [i \in DOMAIN ba |-> Xor(Xor(ba[i], IF i = 1 THEN {} ELSE ba[i - 1]), Part(parts, i))]

\* An error is an empty text.
decryptToByteArray(cypher, key) ==
  LET body == Tail(Unchain(cypher.ba, splitKey(key)))
      n == Length(cypher.flags)
      text == SubSeq(body, n + 1, Len(body))
  IN IF /\ cypher.version = 3
        /\ Len(body) >= n
        /\ SubSeq(body, 1, n) = Integrity(cypher.flags, text)
       THEN text
       ELSE <<>>
=============================================================================
