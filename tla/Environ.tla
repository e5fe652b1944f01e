------------------------------ MODULE Environ ------------------------------
(***************************************************************************)
(* The environment of the shell userland/zsh.c: strings one after the      *)
(* other in a pool, found through a table of pointers that ends in NULL.   *)
(***************************************************************************)
EXTENDS Integers, Sequences

CONSTANTS
    Chars,        \* the characters of an entry
    NUL,          \* the character that ends a string
    MAX_ENV,
    ENV_POOL_SZ

ASSUME EnvAssumption ==
    /\ NUL \notin Chars
    /\ MAX_ENV \in Nat \ {0}
    /\ ENV_POOL_SZ \in Nat

VARIABLES
    pool,      \* g_env_pool, from 1
    pool_used, \* g_env_pool_used
    slots,     \* g_env_slots[0 .. g_env_count - 1], offsets in the pool
    exported   \* history: the entries env_set has accepted

env_vars == <<pool, pool_used, slots, exported>>

EnvInit ==
    /\ pool = [i \in 1 .. ENV_POOL_SZ |-> NUL]
    /\ pool_used = 0
    /\ slots = <<>>
    /\ exported = <<>>

\* The two tests of env_set.
EnvFits(entry) == Len(slots) < MAX_ENV - 1 /\ pool_used + Len(entry) + 1 <= ENV_POOL_SZ

\* Mutant: the next string begins on the NUL of this one.
EnvEnd_OnNul(entry) == pool_used + Len(entry)

\* Where the next string begins.
EnvEnd(entry) == pool_used + Len(entry) + 1

\* env_set
EnvSet(entry) ==
    IF EnvFits(entry)
    THEN /\ pool' = [i \in DOMAIN pool |->
                        IF i - pool_used \in 1 .. Len(entry) THEN entry[i - pool_used]
                        ELSE IF i = pool_used + Len(entry) + 1 THEN NUL ELSE pool[i]]
         /\ slots' = Append(slots, pool_used)
         /\ pool_used' = EnvEnd(entry)
         /\ exported' = Append(exported, entry)
    ELSE UNCHANGED env_vars

EnvSpec == EnvInit /\ [][\E entry \in Seq(Chars) : EnvSet(entry)]_env_vars

-----------------------------------------------------------------------------

\* The string at offset `at' of the used part of a pool is e and then a NUL.
HoldsAt(p, used, at, e) ==
    /\ at + Len(e) + 1 <= used
    /\ \A k \in 1 .. Len(e) : p[at + k] = e[k]
    /\ p[at + Len(e) + 1] = NUL

EnvTypeOK ==
    /\ pool \in [1 .. ENV_POOL_SZ -> Chars \cup {NUL}]
    /\ pool_used \in 0 .. ENV_POOL_SZ
    /\ slots \in Seq(0 .. ENV_POOL_SZ)
    /\ exported \in Seq(Seq(Chars))

\* env_print_all shows exactly the accepted entries, in the order they were
\* exported: no later entry runs into an earlier one, the pool is not overrun and
\* the table keeps room for the NULL that ends it.
EnvIsExports ==
    /\ Len(slots) = Len(exported)
    /\ Len(slots) < MAX_ENV
    /\ pool_used <= ENV_POOL_SZ
    /\ \A i \in 1 .. Len(slots) : HoldsAt(pool, pool_used, slots[i], exported[i])
=============================================================================
