----------------------------- MODULE HashTerms -----------------------------
(***************************************************************************)
(* The values of hw2_signer: a hash is the term that says what was hashed, *)
(* so that two values are equal exactly when they were computed alike      *)
(* (strings, salts and collisions are left out).                           *)
(***************************************************************************)
EXTENDS Order

CONSTANT Th  \* the hashes MultiHash takes of a value (6 in the code)

ASSUME ThAssumption == Th \in Nat \ {0}

Data(v) == <<"data", v>>             \* strconv.Itoa
Md5(d) == <<"md5", d>>               \* DataSignerMd5
Crc32(d) == <<"crc32", d>>           \* DataSignerCrc32
Prefixed(x, d) == <<"th", x, d>>     \* fmt.Sprintf("%d%v", i, v)

\* What hw2.md defines: crc32(data)~crc32(md5(data)), and the concatenation of
\* crc32(th+data) for th = 0..5.  A concatenation is the function from the
\* place of a part to the part.
SingleHashOf(d) == [x \in 0 .. 1 |-> IF x = 0 THEN Crc32(d) ELSE Crc32(Md5(d))]
MultiHashOf(d) == [x \in 0 .. Th - 1 |-> Crc32(Prefixed(x, d))]
HashOf(v) == MultiHashOf(SingleHashOf(Data(v)))
=============================================================================
