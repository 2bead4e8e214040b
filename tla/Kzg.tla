--------------------------------- MODULE Kzg ---------------------------------
(***************************************************************************)
(* Verification of KZG proofs, EllipticCurvesPy/kzg.py, with the groups of *)
(* py_ecc, which are no part of the repository: a point of G1 or G2 is its *)
(* logarithm to the generator modulo BLS_MODULUS, and a pairing is the     *)
(* logarithm of its value.  Bytes that encode a point are the point, other *)
(* bytes are NoPoint; sha256 is taken to be injective.                     *)
(***************************************************************************)
EXTENDS Integers

CONSTANTS
  BLS_MODULUS,             \* the order of the groups
  KZG_SETUP_G2_MONOMIAL_1  \* the secret of the setup, as a point of G2

ASSUME KzgAssumption ==
  BLS_MODULUS \in Nat /\ BLS_MODULUS > 1 /\ KZG_SETUP_G2_MONOMIAL_1 \in 0 .. BLS_MODULUS - 1

NoPoint == -1
G1_POINT_AT_INFINITY == 0
G1 == 1
G2 == 1

\* py_ecc: KeyValidate refuses the point at infinity.
KeyValidate(b) == b # NoPoint /\ b # G1_POINT_AT_INFINITY
ec_add(p, q) == (p + q) % BLS_MODULUS
ec_multiply(p, n) == (p * n) % BLS_MODULUS
ec_neg(p) == (-p) % BLS_MODULUS
ec_pairing(q, p) == (q * p) % BLS_MODULUS

VERSIONED_HASH_VERSION_KZG == 1
kzg_commitment_to_versioned_hash(commitment) ==
  [version |-> VERSIONED_HASH_VERSION_KZG, digest |-> commitment]

\* What the conversions assert.
validate_kzg_g1(b) == b = G1_POINT_AT_INFINITY \/ KeyValidate(b)
bytes_to_bls_field(n) == n < BLS_MODULUS

pairing_check(p1, q1, p2, q2) ==
  (ec_pairing(q1, p1) + ec_pairing(q2, p2)) % BLS_MODULUS = 0

\* P - y = Q * (X - z)
\* mutant: the evaluation point is added to the secret
verify_kzg_proof_impl_PlusZ(commitment, z, y, proof) ==
  LET X_minus_z == ec_add(KZG_SETUP_G2_MONOMIAL_1, ec_multiply(G2, z))
      P_minus_y == ec_add(commitment, ec_multiply(G1, (BLS_MODULUS - y) % BLS_MODULUS))
  IN pairing_check(P_minus_y, ec_neg(G2), proof, X_minus_z)
verify_kzg_proof_impl(commitment, z, y, proof) ==
  LET X_minus_z == ec_add(KZG_SETUP_G2_MONOMIAL_1,
                          ec_multiply(G2, (BLS_MODULUS - z) % BLS_MODULUS))
      P_minus_y == ec_add(commitment, ec_multiply(G1, (BLS_MODULUS - y) % BLS_MODULUS))
  IN pairing_check(P_minus_y, ec_neg(G2), proof, X_minus_z)

\* The assertions that do not hold are exceptions, which the script takes for
\* a proof that is refused.
verify_kzg_proof(commitment, z, y, proof) ==
  /\ validate_kzg_g1(commitment)
  /\ bytes_to_bls_field(z)
  /\ bytes_to_bls_field(y)
  /\ validate_kzg_g1(proof)
  /\ verify_kzg_proof_impl(commitment, z, y, proof)
==============================================================================
