------------------------------- MODULE MCHidcli --------------------------------
\* Three pages of two bytes, the last the bootloader's, and three files: one with
\* two segments in a page, one that reaches into the bootloader's page, and one
\* whose address the tool itself refuses.
EXTENDS Hidcli

P(x, y) == [b \in 0..1 |-> IF b = 0 THEN x ELSE y]
MCElfs ==
    {<<[addr |-> 0, data |-> <<11, 12, 13>>], [addr |-> 1, data |-> <<21>>]>>,
     <<[addr |-> 3, data |-> <<31, 32>>]>>,
     <<[addr |-> 6, data |-> <<41>>]>>}
MCImages == {[p \in 0..2 |-> P(1, 2)], [p \in 0..2 |-> CASE p = 0 -> P(11, 21)
                                                            [] p = 1 -> P(13, 0)
                                                            [] OTHER -> P(1, 2)]}

\* read_flash_data, on every file of up to three segments of up to four bytes.
Segments(k) == {[addr |-> a, data |-> [j \in 1..n |-> 10 * k + j]] : a \in 0..6, n \in 0..4}
ASSUME FilesAreReadRight ==
    \A s \in Segments(1), t \in Segments(2), u \in Segments(3) :
        ReadRight(<<s>>) /\ ReadRight(<<s, t>>) /\ ReadRight(<<s, t, u>>)
================================================================================
