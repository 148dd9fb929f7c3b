----------------------------- MODULE TokenCodec -----------------------------
(***************************************************************************)
(* From the text of a token to its json: hexToBytes, splitBytes and the    *)
(* loop of decrypt over the blocks.  A character is one of the sixteen     *)
(* upper-case digits, by its value, or Other.  Nothing rejects a text that *)
(* is not hexadecimal.  The RSA library is external: a block decrypts or   *)
(* does not, and the bytes it decrypts to are not looked into.             *)
(***************************************************************************)
EXTENDS Integers, Sequences

CONSTANTS Chars,       \* characters of a text, out of 0..Other
          SplitLength, \* publicKey.N.BitLen() / 8
          MaxLen       \* bound: length of a text

Other == 16  \* any character but the digits, lower-case ones included

ASSUME TokenAssumption ==
    /\ Chars \subseteq 0..Other
    /\ SplitLength \in Nat \ {0}
    /\ MaxLen \in Nat

VARIABLES
    text,  \* the token text
    state, \* "typing", "decrypting", "accepted" or "rejected"
    plain  \* jsonText, as the blocks it was decrypted from

tokenVars == <<text, state, plain>>

-----------------------------------------------------------------------------
\* strings.Index in "0123456789ABCDEF".
Index(ch) == IF ch = Other THEN -1 ELSE ch

\* toByte: the conversion to byte keeps the low eight bits.
ToByte(hi, lo) == (Index(hi) * 16 + Index(lo)) % 256

\* hexToBytes.  A last character without a partner is paired with the zero
\* byte behind it (the slice has room, Go does not panic), which is no digit.
HexToBytes(t) ==
    [i \in 1..((Len(t) + 1) \div 2) |->
        ToByte(t[2 * i - 1], IF 2 * i <= Len(t) THEN t[2 * i] ELSE Other)]

\* splitBytes with a group for whole blocks only.
Mutant_GroupsRoundDown(b, n) == Len(b) \div n

\* splitBytes: the number of groups.
Groups(b, n) == IF Len(b) % n # 0 THEN Len(b) \div n + 1 ELSE Len(b) \div n

\* splitBytes: the last group is what remains.
SplitBytes(b, n) ==
    LET x == Groups(b, n)
    IN  [i \in 1..x |-> IF i = x /\ Len(b) % n # 0
                        THEN SubSeq(b, (i - 1) * n + 1, Len(b))
                        ELSE SubSeq(b, (i - 1) * n + 1, i * n)]

Blocks == SplitBytes(HexToBytes(text), SplitLength)

-----------------------------------------------------------------------------
TokenInit ==
    /\ text = <<>>
    /\ state = "typing"
    /\ plain = <<>>

\* The peer composes the text.
Types(ch) ==
    /\ state = "typing"
    /\ Len(text) < MaxLen
    /\ text' = Append(text, ch)
    /\ UNCHANGED <<state, plain>>

\* decrypt is called.
Decrypts ==
    /\ state = "typing"
    /\ state' = "decrypting"
    /\ UNCHANGED <<text, plain>>

\* PubKeyDECRYPT succeeds on the next block.
BlockDecrypts ==
    /\ state = "decrypting"
    /\ Len(plain) < Len(Blocks)
    /\ plain' = Append(plain, Blocks[Len(plain) + 1])
    /\ UNCHANGED <<text, state>>

\* PubKeyDECRYPT returns an error: so does decrypt.
BlockFails ==
    /\ state = "decrypting"
    /\ Len(plain) < Len(Blocks)
    /\ state' = "rejected"
    /\ UNCHANGED <<text, plain>>

\* All blocks are decrypted and the json is parsed; no bytes are no json.
Parses(good) ==
    /\ state = "decrypting"
    /\ Len(plain) = Len(Blocks)
    /\ good => plain # <<>>
    /\ state' = IF good THEN "accepted" ELSE "rejected"
    /\ UNCHANGED <<text, plain>>

TokenNext ==
    \/ \E ch \in Chars : Types(ch)
    \/ Decrypts
    \/ BlockDecrypts
    \/ BlockFails
    \/ \E good \in BOOLEAN : Parses(good)

TokenSpec == TokenInit /\ [][TokenNext]_tokenVars

-----------------------------------------------------------------------------
WellFormed(t) == Len(t) % 2 = 0 /\ \A i \in 1..Len(t) : t[i] \in 0..15

\* Reference: the hexadecimal text of a sequence of bytes.
Hex(b) == [j \in 1..(2 * Len(b)) |-> IF j % 2 = 1 THEN b[(j + 1) \div 2] \div 16
                                                  ELSE b[j \div 2] % 16]

\* hexToBytes inverts the hexadecimal notation.
HexInverse == WellFormed(text) => Hex(HexToBytes(text)) = text

\* The groups of splitBytes put one behind the other are its input: all but
\* the last have the block length, none is empty, every byte is in its place.
SplitIsPartition ==
    LET b == HexToBytes(text)
        n == SplitLength
        s == Blocks
    IN  /\ Len(b) = 0 <=> Len(s) = 0
        /\ \A i \in 1..Len(s) :
            IF i < Len(s) THEN Len(s[i]) = n
                          ELSE Len(s[i]) \in 1..n /\ Len(b) = (i - 1) * n + Len(s[i])
        /\ \A p \in 1..Len(b) : s[((p - 1) \div n) + 1][((p - 1) % n) + 1] = b[p]

\* From the text of a token to its json nothing is lost, moved or changed: of
\* a well-formed text every digit is in its byte, the blocks given to RSA are
\* a partition of the bytes for every remainder of the length, zero included,
\* and a token is accepted only with the plain text of all its blocks in
\* their order, never of some of them.
TokenFaithful ==
    /\ HexInverse
    /\ SplitIsPartition
    /\ state = "accepted" => plain = Blocks /\ text # <<>>
=============================================================================
