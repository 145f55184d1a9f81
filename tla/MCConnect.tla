------------------------------ MODULE MCConnect ------------------------------
EXTENDS AccountLogin

\* two addresses for each DC, one of which leads to the other DC: the second
\* of DC 1, the first of DC 2
MCOptions == << [dc |-> 1, at |-> 1], [dc |-> 1, at |-> 2],
                [dc |-> 2, at |-> 1], [dc |-> 2, at |-> 2] >>

\* G generates the residues modulo 5; the server's B is 0 for one of its
\* secrets, u is 0 for one pair, and larger than P for others
MCPH2 == [p \in Passwords |-> IF p = AccountPassword THEN 4 ELSE 9]
MCU == [pair \in Residues \X Residues |->
          IF pair = <<3, 2>> THEN 0 ELSE pair[1] + 3 * pair[2] + 1]
=============================================================================
