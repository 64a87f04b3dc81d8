---------------------------- MODULE Authorization ----------------------------
(***************************************************************************)
(* Authorities and their verification (types/account.go,                   *)
(* types/authorization.go), the collection of signatures                   *)
(* (types/multisign.go) and the accounts the verification reads through    *)
(* the account capability (capability/account.go).                         *)
(*                                                                         *)
(* VerifyAuthorization takes the authority of the top account once and     *)
(* looks up every delegated account when it comes to it, so the accounts   *)
(* may change between two steps: each lookup is a step, and a frame of the *)
(* recursion is a record on a stack.  A Go map is walked in any order.     *)
(*                                                                         *)
(* An authorization is a tree whose edges are account names.  A node is    *)
(* the sequence of names that leads to it, and the tree maps each node to  *)
(* its list of signatures.                                                 *)
(***************************************************************************)
EXTENDS Naturals, FiniteSets, Sequences, Functions

CONSTANTS
    Accounts,          \* account names
    PubKeys,           \* public keys
    Authorities,       \* Authorities[a]: the authorities account a is given
    Delegations,       \* the parts of an authorization below its root
    MaxWeight,         \* the largest uint64
    MaxRecursionDepth, \* the constant of that name
    MaxSignatures,     \* bound on the signatures of a coordinator
    MaxChanges,        \* bound on the changes of accounts in a behaviour
    Nil                \* no account, no authorization, no verdict

\* A signature that ValidateBasic lets through, good for the message or not.
Sigs == [key : PubKeys, good : BOOLEAN]

Errors == {"signature", "depth", "cycle", "duplicate", "overflow", "getter", "weight"}

ASSUME BoundsAssumption ==
    {MaxWeight, MaxRecursionDepth, MaxSignatures, MaxChanges} \subseteq Nat /\ MaxWeight # 0
ASSUME NilAssumption == Nil \notin {"ok"} \cup Errors \cup Accounts

\* An Authority: a threshold, and two finite maps to weights.
IsAuthority(a) ==
    /\ a.threshold \in Nat
    /\ DOMAIN a.keys \subseteq PubKeys /\ IsFiniteSet(DOMAIN a.keys)
    /\ \A k \in DOMAIN a.keys : a.keys[k] \in Nat
    /\ DOMAIN a.accounts \subseteq Accounts /\ IsFiniteSet(DOMAIN a.accounts)
    /\ \A n \in DOMAIN a.accounts : a.accounts[n] \in Nat

ASSUME AuthoritiesAssumption == \A n \in Accounts : \A a \in Authorities[n] : IsAuthority(a)

\* An Authorization is a finite tree: a node is under another one or under the root.
ASSUME DelegationsAssumption ==
    \A below \in Delegations :
        /\ \A node \in DOMAIN below : node \in Seq(Accounts) /\ below[node] \in Seq(Sigs)
        /\ \A node \in DOMAIN below : Len(node) > 1 => SubSeq(node, 1, Len(node) - 1) \in DOMAIN below
        /\ IsFiniteSet(DOMAIN below)

VARIABLES
    accounts,   \* what the account store answers: an authority, or Nil
    signatures, \* MultiSignCoordinator.signatures
    auth,       \* the authorization being verified, or Nil
    stack,      \* the frames of calculateWeight, the running one last
    root,       \* the account it is verified for, or Nil
    visited,    \* the accounts calculateWeight has marked
    verdict,    \* "ok", the error, or Nil while there is none
    had,        \* the authorities each account had since the verification began
    changes     \* changes of accounts so far

verifyVars == <<auth, root, stack, visited, verdict>>
vars == <<accounts, signatures, verifyVars, had, changes>>

\* A stack or a path without its last member, and that member.
Front(s) == SubSeq(s, 1, Len(s) - 1)
Last(s) == s[Len(s)]

-----------------------------------------------------------------------------
(* Authorities and signatures *)

\* Authority.ValidateBasic: the threshold is positive and can be reached, and
\* the total weight does not overflow.
ValidAuthority(a) ==
    LET total == SumFunction(a.keys) + SumFunction(a.accounts)
    IN  a.threshold # 0 /\ total <= MaxWeight /\ a.threshold <= total

HasKey(a, k) == k \in DOMAIN a.keys

HasAccount(a, n) == n \in DOMAIN a.accounts

\* Signature.Verify, for the message at hand.
Verify(s) == s.good

GetSignedPubKeys(sigs) == {s.key : s \in {t \in Range(sigs) : Verify(t)}}

\* The first loop of calculateWeight: r is [err, total, seen].
Overflows(total, w) == total > MaxWeight - w

\* Fault: a key that has signed may sign again.
CountTwice(r, s, a) ==
    IF r.err # Nil \/ ~HasKey(a, s.key) \/ ~Verify(s) THEN r
    ELSE [r EXCEPT !.total = @ + a.keys[s.key]]

\* Fault: a key is marked before its signature is verified.
CountMarkedEarly(r, s, a) ==
    IF r.err # Nil THEN r
    ELSE IF s.key \in r.seen THEN [r EXCEPT !.err = "duplicate"]
    ELSE IF ~HasKey(a, s.key) \/ ~Verify(s) THEN [r EXCEPT !.seen = @ \cup {s.key}]
    ELSE [r EXCEPT !.seen = @ \cup {s.key}, !.total = @ + a.keys[s.key]]

Count(r, s, a) ==
    IF r.err # Nil THEN r
    ELSE IF s.key \in r.seen THEN [r EXCEPT !.err = "duplicate"]
    ELSE IF ~HasKey(a, s.key) \/ ~Verify(s) THEN r
    ELSE IF Overflows(r.total, a.keys[s.key]) THEN [r EXCEPT !.err = "overflow"]
    ELSE [err |-> Nil, total |-> r.total + a.keys[s.key], seen |-> r.seen \cup {s.key}]

KeyWeight(sigs, a) ==
    LET after[i \in 0 .. Len(sigs)] ==
            IF i = 0 THEN [err |-> Nil, total |-> 0, seen |-> {}] ELSE Count(after[i - 1], sigs[i], a)
    IN  after[Len(sigs)]

Init ==
    /\ accounts \in {f \in [Accounts -> (UNION {Authorities[a] : a \in Accounts}) \cup {Nil}] :
                        \A a \in Accounts : f[a] = Nil \/ (f[a] \in Authorities[a] /\ ValidAuthority(f[a]))}
    /\ signatures = <<>>
    /\ auth = Nil
    /\ root = Nil
    /\ stack = <<>>
    /\ visited = {}
    /\ verdict = Nil
    /\ had = [a \in Accounts |-> {}]
    /\ changes = 0

-----------------------------------------------------------------------------
(* MultiSignCoordinator; each method holds the lock, signing is outside it *)

\* AddSignature does not verify: the signature may be bad.
AddSignature(s) ==
    /\ root = Nil
    /\ \A i \in 1 .. Len(signatures) : signatures[i].key # s.key
    /\ Len(signatures) < MaxSignatures
    /\ signatures' = Append(signatures, s)
    /\ UNCHANGED <<accounts, verifyVars, had, changes>>

ImportSignature(s) == Verify(s) /\ AddSignature(s)

SignWithSigner(k) == AddSignature([key |-> k, good |-> TRUE])

\* The authorization that Complete returns, with what other accounts have signed.
Complete(below) ==
    [node \in {<<>>} \cup DOMAIN below |-> IF node = <<>> THEN signatures ELSE below[node]]

Reset ==
    /\ root = Nil
    /\ signatures # <<>>
    /\ signatures' = <<>>
    /\ UNCHANGED <<accounts, verifyVars, had, changes>>

-----------------------------------------------------------------------------
(* VerifyAuthorization *)

Top == stack[Len(stack)]

Reject(err) ==
    /\ verdict' = err
    /\ stack' = <<>>
    /\ visited' = {}

\* The entries of AccountAuthorizations; ValidateBasic has seen that none is nil.
Children(tree, node) == {n \in Accounts : Append(node, n) \in DOMAIN tree}

\* calculateWeight is entered for account n with authority a: depth, cycle, and
\* the signatures of the node.
Enter(frames, tree, node, n, a) ==
    LET w == KeyWeight(tree[node], a)
    IN  IF Len(node) > MaxRecursionDepth THEN Reject("depth")
        ELSE IF n \in visited THEN Reject("cycle")
        ELSE IF w.err # Nil THEN Reject(w.err)
        ELSE /\ visited' = visited \cup {n}
             /\ stack' = Append(frames, [node |-> node, account |-> n, authority |-> a,
                                         total |-> w.total, todo |-> Children(tree, node)])
             /\ UNCHANGED verdict

VerifySignatures(sigs) == \A i \in 1 .. Len(sigs) : Verify(sigs[i])

\* The authorization is verified for account n.  A bad signature at the root is an
\* error; the weights of the root are counted in the same step.
VerifyAuthorization(n, below) ==
    LET tree == Complete(below)
    IN  /\ root = Nil
        /\ auth' = tree
        /\ root' = n
        /\ had' = [a \in Accounts |-> {accounts[a]} \ {Nil}]
        /\ IF ~VerifySignatures(signatures) THEN Reject("signature")
           ELSE Enter(<<>>, tree, <<>>, n, accounts[n])
        /\ UNCHANGED <<accounts, signatures, changes>>

\* accountCapability.VerifyAuthorization: the caller has got the account.
CapabilityVerify(n, below) == accounts[n] # Nil /\ VerifyAuthorization(n, below)

\* The lookup of a delegated account reads the store as it is now.
GetAccount(n) == accounts[n]

\* Fault: an account that does not exist is waited for.
DelegateWaits(n) ==
    /\ stack # <<>>
    /\ n \in Top.todo
    /\ LET rest == [stack EXCEPT ![Len(stack)].todo = @ \ {n}]
       IN  IF ~HasAccount(Top.authority, n) THEN stack' = rest /\ UNCHANGED <<visited, verdict>>
           ELSE accounts[n] # Nil /\ Enter(rest, auth, Append(Top.node, n), n, accounts[n])
    /\ UNCHANGED <<accounts, signatures, auth, root, had, changes>>

\* The next entry of the map of account authorizations.  An account without
\* weight is skipped; one that does not exist fails the whole verification.
Delegate(n) ==
    /\ stack # <<>>
    /\ n \in Top.todo
    /\ LET rest == [stack EXCEPT ![Len(stack)].todo = @ \ {n}]
       IN  IF ~HasAccount(Top.authority, n) THEN stack' = rest /\ UNCHANGED <<visited, verdict>>
           ELSE IF GetAccount(n) = Nil THEN Reject("getter")
           ELSE Enter(rest, auth, Append(Top.node, n), n, GetAccount(n))
    /\ UNCHANGED <<accounts, signatures, auth, root, had, changes>>

\* Fault: the account stays marked when its frame returns.
ReturnMarked ==
    /\ Len(stack) > 1
    /\ Top.todo = {}
    /\ LET caller == stack[Len(stack) - 1]
           w == IF Top.total >= Top.authority.threshold THEN caller.authority.accounts[Top.account] ELSE 0
       IN  stack' = [Front(stack) EXCEPT ![Len(stack) - 1].total = @ + w]
    /\ UNCHANGED <<accounts, signatures, auth, root, visited, verdict, had, changes>>

\* A delegated frame returns; its account counts for the caller if the threshold
\* that was read with its authority is met.
Return ==
    /\ Len(stack) > 1
    /\ Top.todo = {}
    /\ LET caller == stack[Len(stack) - 1]
           w == IF Top.total >= Top.authority.threshold THEN caller.authority.accounts[Top.account] ELSE 0
       IN  IF Overflows(caller.total, w) THEN Reject("overflow")
           ELSE /\ stack' = [Front(stack) EXCEPT ![Len(stack) - 1].total = @ + w]
                /\ visited' = visited \ {Top.account}
                /\ UNCHANGED verdict
    /\ UNCHANGED <<accounts, signatures, auth, root, had, changes>>

\* The first frame returns and the weight is held against the threshold.
Decide ==
    /\ Len(stack) = 1
    /\ Top.todo = {}
    /\ verdict' = IF Top.total < Top.authority.threshold THEN "weight" ELSE "ok"
    /\ stack' = <<>>
    /\ visited' = visited \ {Top.account}
    /\ UNCHANGED <<accounts, signatures, auth, root, had, changes>>

-----------------------------------------------------------------------------
(* The account capability, used meanwhile by another goroutine *)

Change(n, a) ==
    /\ changes < MaxChanges
    /\ root # Nil /\ verdict = Nil
    /\ changes' = changes + 1
    /\ accounts' = [accounts EXCEPT ![n] = a]
    /\ had' = [had EXCEPT ![n] = @ \cup ({a} \ {Nil})]
    /\ UNCHANGED <<signatures, verifyVars>>

NewAuthority(k) == [threshold |-> 1, keys |-> [x \in {k} |-> 1], accounts |-> [x \in {} |-> 0]]

CreateAccount(n, k) == accounts[n] = Nil /\ Change(n, NewAuthority(k))

UpdateAccount(n, a) == accounts[n] # Nil /\ ValidAuthority(a) /\ Change(n, a)

DeleteAccount(n) == Change(n, Nil)

-----------------------------------------------------------------------------
Verification == (\E n \in Accounts : Delegate(n)) \/ Return \/ Decide

Next ==
    \/ \E s \in Sigs : AddSignature(s) \/ ImportSignature(s)
    \/ \E k \in PubKeys : SignWithSigner(k)
    \/ Reset
    \/ \E n \in Accounts, below \in Delegations : CapabilityVerify(n, below)
    \/ \E n \in Accounts : Delegate(n)
    \/ Return
    \/ Decide
    \/ \E n \in Accounts, k \in PubKeys : CreateAccount(n, k)
    \/ \E n \in Accounts : \E a \in Authorities[n] : UpdateAccount(n, a)
    \/ \E n \in Accounts : DeleteAccount(n)

Spec == Init /\ [][Next]_vars

\* The goroutine that verifies goes on.
FairSpec == Spec /\ WF_vars(Verification)

-----------------------------------------------------------------------------
(* Properties *)

AllAuthorities == (UNION {Authorities[a] : a \in Accounts}) \cup {NewAuthority(k) : k \in PubKeys}

\* Types; every stored authority passes Authority.ValidateBasic.
TypeOK ==
    /\ accounts \in [Accounts -> AllAuthorities \cup {Nil}]
    /\ \A n \in Accounts : accounts[n] = Nil \/ ValidAuthority(accounts[n])
    /\ signatures \in Seq(Sigs)
    /\ auth = Nil \/ \A node \in DOMAIN auth : auth[node] \in Seq(Sigs)
    /\ \A i \in 1 .. Len(stack) :
         /\ stack[i].node \in DOMAIN auth
         /\ stack[i].account \in Accounts
         /\ stack[i].authority \in AllAuthorities
         /\ stack[i].total \in 0 .. MaxWeight
         /\ stack[i].todo \subseteq Accounts
    /\ visited \subseteq Accounts
    /\ verdict \in Errors \cup {"ok", Nil}
    /\ had \in [Accounts -> SUBSET AllAuthorities]
    /\ changes \in 0 .. MaxChanges

\* The marked accounts are those of the frames in progress, each in one frame, and
\* there are never more than MaxRecursionDepth + 1 of them: neither a cycle of
\* delegations nor a deep tree makes calculateWeight recurse further.
MarkedInProgress ==
    /\ visited = {stack[i].account : i \in 1 .. Len(stack)}
    /\ Cardinality(visited) = Len(stack)
    /\ Len(stack) <= MaxRecursionDepth + 1

\* The keys that have signed anywhere in the tree.
SignedKeys == UNION {GetSignedPubKeys(auth[node]) : node \in DOMAIN auth}

\* The keys that have signed and the accounts in S have the weight that a asks for.
Met(a, S) ==
    SumFunctionOnSet(a.keys, DOMAIN a.keys \cap SignedKeys) +
    SumFunctionOnSet(a.accounts, DOMAIN a.accounts \cap S) >= a.threshold

\* S holds every account that has had an authority which S satisfies.
Closed(S) == \A n \in Accounts : (\E a \in had[n] : Met(a, S)) => n \in S

\* What the signatures amount to: the least such set of accounts.
Satisfied == {n \in Accounts : \A S \in SUBSET Accounts : Closed(S) => n \in S}

\* An authorization is accepted only if the signatures in it satisfy the account:
\* by enough distinct keys, or through accounts that are themselves satisfied,
\* each under an authority it had while the verification went on.
AcceptedIsSatisfied == verdict = "ok" => root \in Satisfied

\* The account a node is for, and whether calculateWeight counts signature i of it.
Name(node) == IF node = <<>> THEN root ELSE Last(node)

Counted(node, i) == Verify(auth[node][i]) /\ HasKey(accounts[Name(node)], auth[node][i].key)

\* calculateWeight fails at the node: too deep, no account, a cycle, or a key that
\* signs again.
Broken(node) ==
    \/ Len(node) > MaxRecursionDepth
    \/ accounts[Name(node)] = Nil
    \/ node # <<>> /\ Name(node) \in {root} \cup Range(Front(node))
    \/ \E i, j \in 1 .. Len(auth[node]) :
           i < j /\ auth[node][i].key = auth[node][j].key /\ Counted(node, i)

\* The nodes that a walk in some order comes to, and those that reach their threshold.
reached[node \in DOMAIN auth] ==
    \/ node = <<>>
    \/ /\ reached[Front(node)]
       /\ ~Broken(Front(node))
       /\ HasAccount(accounts[Name(Front(node))], Last(node))

meets[node \in DOMAIN auth] ==
    LET a == accounts[Name(node)]
    IN  SumFunctionOnSet(a.keys, DOMAIN a.keys \cap GetSignedPubKeys(auth[node])) +
        SumFunctionOnSet(a.accounts, {n \in DOMAIN a.accounts \cap Children(auth, node) :
                                        meets[Append(node, n)]}) >= a.threshold

\* What VerifyAuthorization decides, read off the tree without an order: no
\* signature at the root is bad, no node that is reached is broken, and the
\* weights of the root reach its threshold.
Accepts ==
    /\ VerifySignatures(auth[<<>>])
    /\ \A node \in DOMAIN auth : reached[node] => ~Broken(node)
    /\ meets[<<>>]

\* The types hold, and while no account changes, an authorization is accepted
\* exactly if Accepts holds: the order in which the map of delegations is walked
\* does not matter, a delegate named on two branches is no cycle, and no frame
\* loses a weight.
VerdictIsExact ==
    /\ TypeOK
    /\ verdict # Nil /\ changes = 0 => ((verdict = "ok") <=> Accepts)

\* Every verification ends with a verdict, whatever cycles the delegations have.
Terminates == (root # Nil) ~> (verdict # Nil)
=============================================================================
