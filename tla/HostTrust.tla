----------------------------- MODULE HostTrust -----------------------------
(***************************************************************************)
(* Whom a host's credentials are sent to: the connection fields of one SSH *)
(* host, their edit, the key its machine showed at the first check and     *)
(* must show again (TOFU), and the two ways of connecting: a check, and    *)
(* the connection test of the edit page (app/routes/hosts.py, _connect,    *)
(* verify_hostkey and test_connection in app/checker.py).                  *)
(*                                                                         *)
(* Handlers run in the event loop one after the other; a check and a test  *)
(* run in threads on what they loaded or were given, while the row may be  *)
(* edited.  At most one check of the host runs (RunLifecycle, OneHolder).  *)
(* The host is not deleted: see RunLifecycle for that.                     *)
(***************************************************************************)
EXTENDS Naturals

CONSTANTS
  Addrs,       \* IP addresses
  HostKeys,    \* keys machines show
  Passwords,   \* SSH passwords
  PrivateKeys, \* SSH private keys
  None,        \* an empty field of the row
  Unsent       \* a form field that is missing or left empty

ASSUME TrustAssumption ==
  /\ None \notin HostKeys \cup Passwords \cup PrivateKeys
  /\ Unsent \notin Addrs \cup Passwords \cup PrivateKeys \cup {None}

Rows ==
  [addr : Addrs, username : BOOLEAN, password : Passwords \cup {None},
   private_key : PrivateKeys \cup {None}, ssh_hostkey : HostKeys \cup {None}]

VARIABLES
  row,      \* the committed row of the host
  machine,  \* the key that answers at each address
  check,    \* the check: its copy of the row, and the pin it was loaded with
  test,     \* the connection test: address and credentials
  sent,     \* history: credentials and the address they were used at
  together  \* history: credentials and an address that were stored, or
            \* entered into the form of a test, together

vars == <<row, machine, check, test, sent, together>>

NoTest == [addr |-> Unsent, secrets |-> {}]

TypeOK ==
  /\ row \in Rows
  /\ machine \in [Addrs -> HostKeys]
  /\ check \in [pc : {"idle", "loaded", "connected"}, copy : Rows,
                pin : HostKeys \cup {None}]
  /\ test \in [addr : Addrs \cup {Unsent},
               secrets : SUBSET (Passwords \cup PrivateKeys)]
  /\ sent \subseteq (Passwords \cup PrivateKeys) \X Addrs
  /\ together \subseteq (Passwords \cup PrivateKeys) \X Addrs

(* What _effective_creds and _connect take from a row.                     *)
Secrets(r) == {r.password, r.private_key} \ {None}

(* An SSH host has an account, and a password or a private key.            *)
Connectable(r) == r.username /\ Secrets(r) # {}

(* host_create.                                                            *)
Init ==
  /\ row \in {r \in Rows : Connectable(r) /\ r.ssh_hostkey = None}
  /\ machine \in [Addrs -> HostKeys]
  /\ check = [pc |-> "idle", copy |-> row, pin |-> None]
  /\ test = NoTest
  /\ sent = {}
  /\ together = Secrets(row) \X {row.addr}

(* Another machine, or a reinstalled one, answers at an address.           *)
Reinstall(a, k) ==
  /\ machine' = [machine EXCEPT ![a] = k]
  /\ UNCHANGED <<row, check, test, sent, together>>

Edits ==
  [addr : Addrs \cup {Unsent}, username : BOOLEAN \cup {Unsent},
   password : Passwords \cup {Unsent, None},
   private_key : PrivateKeys \cup {Unsent, None}, clear_hostkey : BOOLEAN]

(* A field of the form over one of the row: not sent means keep.  For the  *)
(* credentials an empty field means keep as well, and None stands for the  *)
(* box that clears them.                                                   *)
Given(field, old) == IF field = Unsent THEN old ELSE field

Edited(e) ==
  LET addr == Given(e.addr, row.addr) IN
    [addr |-> addr,
     username |-> Given(e.username, row.username),
     password |-> Given(e.password, row.password),
     private_key |-> Given(e.private_key, row.private_key),
     ssh_hostkey |-> IF e.clear_hostkey \/ addr # row.addr
                     THEN None ELSE row.ssh_hostkey]

(* The host as it would be must stay connectable, or all is rolled back.   *)
Accepted(e) == Connectable(Edited(e))

HostEditSave(e) ==
  /\ Accepted(e)
  /\ row' = Edited(e)
  /\ together' = together \cup (Secrets(row') \X {row'.addr})
  /\ UNCHANGED <<machine, check, test, sent>>

(* run_ssh_check loads the host once and keeps that copy.                  *)
CheckLoad ==
  /\ check.pc = "idle"
  /\ check' = [pc |-> "loaded", copy |-> row, pin |-> row.ssh_hostkey]
  /\ UNCHANGED <<row, machine, test, sent, together>>

(* verify_hostkey: the key is the one on record, or there is none yet.     *)
VerifyHostkey(r) == r.ssh_hostkey \in {None, machine[r.addr]}

(* _connect: after the key, the credentials.  A key on first sight goes    *)
(* into the copy only.                                                     *)
CheckConnect ==
  /\ check.pc = "loaded"
  /\ VerifyHostkey(check.copy)
  /\ check' = [pc |-> "connected", pin |-> check.pin,
               copy |-> [check.copy EXCEPT
                           !.ssh_hostkey = machine[check.copy.addr]]]
  /\ sent' = sent \cup (Secrets(check.copy) \X {check.copy.addr})
  /\ UNCHANGED <<row, machine, test, together>>

WrittenCopy == check.copy.ssh_hostkey

(* The commit writes the columns the session saw change: the pin only if   *)
(* the copy had none.                                                      *)
Written ==
  IF check.copy.ssh_hostkey # check.pin THEN check.copy.ssh_hostkey
  ELSE row.ssh_hostkey

(* save_report commits the copy's changes with the result.                 *)
CheckSave ==
  /\ check.pc = "connected"
  /\ row' = [row EXCEPT !.ssh_hostkey = Written]
  /\ check' = [check EXCEPT !.pc = "idle"]
  /\ UNCHANGED <<machine, test, sent, together>>

(* Another key, a refused login, a script without a result: the session is *)
(* rolled back, and a key seen for the first time is forgotten.            *)
CheckFail ==
  /\ check.pc # "idle"
  /\ check' = [check EXCEPT !.pc = "idle"]
  /\ UNCHANGED <<row, machine, test, sent, together>>

Forms ==
  [addr : Addrs, password : Passwords \cup {Unsent},
   private_key : PrivateKeys \cup {Unsent}, host : BOOLEAN]

UsedStoredPasswordOnly(f) ==
  f.host /\ f.password = Unsent /\ row.password # None

(* Some credential is taken from the stored host.                          *)
UsedStored(f) ==
  /\ f.host
  /\ \/ f.password = Unsent /\ row.password # None
     \/ f.private_key = Unsent /\ row.private_key # None

(* The credentials of the form, and those of the host where it has none.   *)
Typed(f) == {f.password, f.private_key} \ {Unsent}

Filled(f) ==
  Typed(f) \cup
    IF f.host THEN {Given(f.password, row.password),
                    Given(f.private_key, row.private_key)} \ {None}
    ELSE {}

(* host_test_connection hands a host made up from the form to a thread.    *)
HostTestConnection(f) ==
  /\ test = NoTest
  /\ UsedStored(f) => f.addr = row.addr
  /\ test' = [addr |-> f.addr, secrets |-> Filled(f)]
  /\ together' = together \cup (Typed(f) \X {f.addr})
  /\ UNCHANGED <<row, machine, check, sent>>

(* test_connection: the host made up has no pin, so any key will do; none  *)
(* is recorded.                                                            *)
TestConnect ==
  /\ test # NoTest
  /\ sent' = sent \cup (test.secrets \X {test.addr})
  /\ test' = NoTest
  /\ UNCHANGED <<row, machine, check, together>>

Next ==
  \/ \E a \in Addrs, k \in HostKeys : Reinstall(a, k)
  \/ \E e \in Edits : HostEditSave(e)
  \/ CheckLoad \/ CheckConnect \/ CheckSave \/ CheckFail
  \/ \E f \in Forms : HostTestConnection(f)
  \/ TestConnect

Spec == Init /\ [][Next]_vars

---------------------------------------------------------------------------
(* Stored credentials are used at no address but one they were stored, or  *)
(* entered, together with: neither a test with some fields left empty      *)
(* (hosts.py:369-383) nor an edit under a running check or test sends them *)
(* elsewhere.                                                              *)
StoredStaysHome == sent \subseteq together

(* The recorded key changes only by a reset, or from nothing to what a     *)
(* check saw that knew of none: a check that began before a reset does not *)
(* bring the old key back (hosts.py:249-251, checker.py:508-525).          *)
PinOnlyReset ==
  [][row'.ssh_hostkey # row.ssh_hostkey =>
       \/ row'.ssh_hostkey = None
       \/ row.ssh_hostkey = None /\ check.pin = None]_vars

(* A host with a new address is a new host (hosts.py:249-251): the key     *)
(* recorded for it was shown at that address.  It does not hold of a first *)
(* check whose host is given another address before its result is stored.  *)
PinOfAddress ==
  [][row'.ssh_hostkey \notin {None, row.ssh_hostkey} =>
       check.copy.addr = row'.addr]_vars
=============================================================================
