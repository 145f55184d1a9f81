------------------------------ MODULE Password -------------------------------
(***************************************************************************)
(* The proof of a 2FA password (mtproto/password.go): BuildSRPProof, the   *)
(* client's half of SRP, and the server's half it has to agree with.       *)
(*                                                                         *)
(* The arithmetic is the code's, over a small prime.  The hashes are       *)
(* constants: their values for the inputs that occur.  A hash that is only *)
(* compared (M1, the key over the shared secret) is the tuple of its       *)
(* inputs.                                                                 *)
(***************************************************************************)
EXTENDS Integers, Sequences

CONSTANTS
    P,         \* algo.P, the prime
    G,         \* algo.G, the generator
    K,         \* SHA256(p, g), the multiplier
    Passwords, \* what may be typed; "" is nothing but spaces
    PH2,       \* passwordHashPH2: a number for each password
    U          \* SHA256(A, B): a number for each pair

Residues == 0 .. P - 1

ASSUME PasswordAssumption ==
    /\ P \in Nat /\ P > 2
    /\ G \in 2 .. 7
    /\ K \in Nat
    /\ PH2 \in [Passwords -> Nat]
    /\ U \in [Residues \X Residues -> Nat]

\* P divides a multiple of G only if it divides the factor: so it is for a prime
\* that does not divide G.  The code takes the server's p and g as they are.
ASSUME GeneratorAssumption == \A n \in 1 .. P - 1 : (G * n) % P # 0

\* big.Int.Exp modulo P
Exp(base, n) ==
    LET power[m \in Nat] == IF m = 0 THEN 1 ELSE (base * power[m - 1]) % P
    IN  power[n]

\* randomBigIntLessThan(p): zero is drawn again
Secrets == 1 .. P - 1

\* v, what the server keeps of a password
Verifier(password) == Exp(G, PH2[password])

\* variant ruled out: the multiplier is left out
SharedBaseNoMultiplier(B, v) == (B - v) % P

\* t, the server's public value without the verifier's part; never negative
SharedBase(B, v) == (B - ((K * v) % P)) % P

\* the answer of account.getPassword that BuildSRPProof accepts
AcceptsParams(params) ==
    /\ params.hasPassword
    /\ params.algo = "sha256ModPow"
    /\ params.g \in 2 .. 7
    /\ params.B > 0 /\ params.B < P

\* the proof <<A, M1>>, and << >> for an error: parameters out of range, or an
\* A, a u or a t that is zero
BuildSRPProof(params, password, a) ==
    LET A == Exp(G, a)
        x == PH2[password]
        u == U[A, params.B]
        t == SharedBase(params.B, Verifier(password))
        S == Exp(t, u * x + a)
    IN  IF AcceptsParams(params) /\ A # 0 /\ u # 0 /\ t # 0
        THEN <<A, <<A, params.B, S>>>>
        ELSE << >>

-----------------------------------------------------------------------------
(* External: the server *)

ServerB(password, b) == (K * Verifier(password) + Exp(G, b)) % P

ServerM1(password, A, b) ==
    LET B == ServerB(password, b)
        S == Exp(A * Exp(Verifier(password), U[A, B]), b)
    IN  <<A, B, S>>
=============================================================================
