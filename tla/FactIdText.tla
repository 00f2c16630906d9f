---- MODULE FactIdText ----
(***************************************************************************)
(* The two forms of a FactId (fact_id.rs): 16 bytes, and the prefix "kf_"  *)
(* with 26 base-32 characters, of which the first carries three bits.      *)
(* Widths are parameters, so that small ones can be enumerated: with n     *)
(* five-bit characters an id has 5n - 2 bits.  Below it, the thread-local  *)
(* pool its random bytes are taken from.                                   *)
(***************************************************************************)
EXTENDS Integers, Sequences

Refused == -1

(* Widths of the timestamp, the sequence and the entropy, in values.       *)
FromParts(timestamp, sequence, entropy, w) ==
    ((timestamp % w.timestamp) * w.sequence + sequence) * w.entropy + entropy
TimestampOf(id, w) == id \div (w.sequence * w.entropy)
SequenceOf(id, w) == (id \div w.entropy) % w.sequence

(* A character is an alphabet index and a case, or OtherChar.              *)
OtherChar == <<32, "upper">>
EncodeText(id, len) == [i \in 1..len |-> <<(id \div (32 ^ (len - i))) % 32, "upper">>]
DecodeChar(char) == IF char[1] < 32 THEN char[1] ELSE Refused
Lower(text) == [i \in DOMAIN text |-> <<text[i][1], "lower">>]

(* FactId::parse of a text that has the prefix.                            *)
Parse(text, len) ==
    LET value[i \in 0..Len(text)] ==
            IF i = 0 THEN 0 ELSE value[i - 1] * 32 + DecodeChar(text[i])
    IN  IF \/ Len(text) # len
           \/ \E i \in 1..Len(text) : DecodeChar(text[i]) = Refused
           \/ DecodeChar(text[1]) > 7
        THEN Refused ELSE value[len]

(* String order of two texts of one length and case: the alphabet ascends. *)
TextBefore(s, t) ==
    \E i \in DOMAIN s : s[i][1] < t[i][1] /\ \A j \in 1..(i - 1) : s[j] = t[j]

-----------------------------------------------------------------------------
(* EntropyPool: refills counts the reads of the system's random source,    *)
(* cursor the bytes of the last one already handed out.                    *)
NewPool(size) == [refills |-> 0, cursor |-> size]
Refill(pool) == [refills |-> pool.refills + 1, cursor |-> 0]
TakeByte(pool, size) ==
    LET p == IF pool.cursor >= size THEN Refill(pool) ELSE pool
    IN  [pool |-> [p EXCEPT !.cursor = @ + 1], byte |-> <<p.refills, p.cursor>>]
Fill(pool, n, size) ==
    LET step[i \in 0..n] ==
            IF i = 0 THEN [pool |-> pool, bytes |-> << >>]
            ELSE LET b == TakeByte(step[i - 1].pool, size)
                 IN  [pool |-> b.pool, bytes |-> Append(step[i - 1].bytes, b.byte)]
    IN  step[n]
====
