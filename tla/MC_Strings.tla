----------------------------- MODULE MC_Strings ------------------------------
(* Inputs for the string helpers.                                         *)
EXTENDS Strings

\* Every string of up to three bytes over NUL, space, 'a' and 0xFF: leading,
\* trailing and inner spaces, strings of spaces only, the empty string,
\* embedded NULs and a byte above 127.
Strs(alphabet, n) == UNION {[1..k -> alphabet] : k \in 0..n}
MCTexts == Strs({NUL, Space, 97, 255}, 3)
MCAffixes == Strs({NUL, Space, 97, 255}, 2)

\* Pieces of up to three bytes over NUL, 'a' and 0xFF: equal and unequal
\* sizes, odd sizes that differ only in the last or only in an inner byte,
\* and bytes that compare differently signed and unsigned.
MCPieces == Strs({NUL, 97, 255}, 3)

\* Zero to three parts, empty or not, and delimiters of zero, one and two
\* bytes; zero to two key/value pairs with empty values and delimiters.
MCJoins == {[parts |-> p, delim |-> d] :
              p \in Strs({<<>>, <<97>>, <<Space, 97>>}, 3),
              d \in {<<>>, <<44>>, <<44, Space>>}}
MCKeyValues == {[pairs |-> p, intra |-> i, inter |-> e] :
                  p \in Strs({<<97>>, <<98>>} \X {<<>>, <<49>>}, 2),
                  i \in {<<>>, <<61>>}, e \in {<<38>>, <<44, Space>>}}
=============================================================================
