-------------------------- MODULE HostTrustProofs --------------------------
(***************************************************************************)
(* The properties of HostTrust hold for any addresses, keys and            *)
(* credentials, and any number of edits, checks and tests.                 *)
(*                                                                         *)
(* A check and a test work on what they took from the row before.  The     *)
(* invariant carries over what is known of it: each of the copies holds    *)
(* only credentials that belong to its address, and a check that knew of   *)
(* no pin is right that there is none.                                     *)
(***************************************************************************)
EXTENDS HostTrust, TLAPS

(* Whatever is about to be used at an address belongs there.               *)
BelongsOK ==
  /\ Secrets(row) \X {row.addr} \subseteq together
  /\ Secrets(check.copy) \X {check.copy.addr} \subseteq together
  /\ test.secrets \X {test.addr} \subseteq together
  /\ sent \subseteq together

(* The pin a check was loaded with, its copy and the row.                  *)
PinOK ==
  /\ (check.pc # "idle" /\ check.pin = None) => row.ssh_hostkey = None
  /\ (check.pc # "idle" /\ check.pin # None) =>
       check.copy.ssh_hostkey = check.pin
  /\ check.pc = "loaded" => check.copy.ssh_hostkey = check.pin

Inv == TypeOK /\ BelongsOK /\ PinOK

---------------------------------------------------------------------------
(* An edit yields a row of the right type.                                 *)
LEMMA EditedRow ==
  ASSUME TypeOK, NEW e \in Edits
  PROVE  Edited(e) \in Rows
BY TrustAssumption DEF TypeOK, Edits, Edited, Given, Rows

(* A step that leaves copies and credentials in place keeps the invariant. *)
LEMMA QuietStep ==
  ASSUME Inv, UNCHANGED <<row, check, test, sent, together>>,
         machine' \in [Addrs -> HostKeys]
  PROVE  Inv'
BY DEF Inv, TypeOK, BelongsOK, PinOK, Secrets

(* Every step keeps the invariant, and changes the pin only as it should.  *)
LEMMA InvStep == Inv /\ [Next]_vars => Inv'
<1> SUFFICES ASSUME Inv, [Next]_vars PROVE Inv'
  OBVIOUS
<1> USE DEF Inv
<1>1. ASSUME NEW a \in Addrs, NEW k \in HostKeys, Reinstall(a, k) PROVE Inv'
  BY <1>1, QuietStep DEF Reinstall, TypeOK
<1>2. ASSUME NEW e \in Edits, HostEditSave(e) PROVE Inv'
  <2>1. row' = Edited(e) /\ row' \in Rows
    BY <1>2, EditedRow DEF HostEditSave
  <2>2. together' = together \cup (Secrets(row') \X {row'.addr})
        /\ UNCHANGED <<machine, check, test, sent>>
    BY <1>2 DEF HostEditSave
  <2>3. Secrets(row') \subseteq Passwords \cup PrivateKeys /\ row'.addr \in Addrs
    BY <2>1 DEF Rows, Secrets
  <2>4. TypeOK'
    BY <2>1, <2>2, <2>3 DEF TypeOK
  <2>5. BelongsOK'
    BY <2>2 DEF BelongsOK, Secrets
  <2>6. row'.ssh_hostkey \in {None, row.ssh_hostkey}
    BY <2>1 DEF Edited
  <2>7. PinOK'
    BY <2>2, <2>6 DEF PinOK
  <2> QED
    BY <2>1, <2>4, <2>5, <2>7
<1>3. CASE CheckLoad
  <2>1. check' = [pc |-> "loaded", copy |-> row, pin |-> row.ssh_hostkey]
        /\ UNCHANGED <<row, machine, test, sent, together>>
    BY <1>3 DEF CheckLoad
  <2>2. TypeOK'
    BY <2>1 DEF TypeOK, Rows
  <2>3. BelongsOK'
    BY <2>1 DEF BelongsOK, Secrets
  <2>4. PinOK'
    BY <2>1 DEF PinOK, Secrets
  <2> QED
    BY <2>2, <2>3, <2>4
<1>4. CASE CheckConnect
  <2> DEFINE key == machine[check.copy.addr]
  <2>1. check.pc = "loaded" /\ VerifyHostkey(check.copy)
        /\ check' = [pc |-> "connected", pin |-> check.pin,
                     copy |-> [check.copy EXCEPT !.ssh_hostkey = key]]
        /\ sent' = sent \cup (Secrets(check.copy) \X {check.copy.addr})
        /\ UNCHANGED <<row, machine, test, together>>
    BY <1>4 DEF CheckConnect
  <2>2. check.copy \in Rows /\ key \in HostKeys
    BY DEF TypeOK, Rows
  <2>3. PICK c \in Rows : c = check.copy
    BY <2>2
  <2>4. [c EXCEPT !.ssh_hostkey = key] \in Rows
        /\ [c EXCEPT !.ssh_hostkey = key].addr = c.addr
        /\ [c EXCEPT !.ssh_hostkey = key].password = c.password
        /\ [c EXCEPT !.ssh_hostkey = key].private_key = c.private_key
        /\ [c EXCEPT !.ssh_hostkey = key].ssh_hostkey = key
    BY <2>2, <2>3 DEF Rows
  <2>5. check'.copy = [c EXCEPT !.ssh_hostkey = key]
        /\ check'.pc = "connected" /\ check'.pin = check.pin
    BY <2>1, <2>3
  <2>6. Secrets(check'.copy) = Secrets(c) /\ check'.copy.addr = c.addr
    BY <2>4, <2>5 DEF Secrets
  <2>7. Secrets(c) \subseteq Passwords \cup PrivateKeys /\ c.addr \in Addrs
    BY DEF Secrets, Rows
  <2>8. TypeOK'
    BY <2>1, <2>3, <2>4, <2>7 DEF TypeOK
  <2>9. BelongsOK'
    BY <2>1, <2>3, <2>6 DEF BelongsOK, Secrets
  <2>10. PinOK'
    BY <2>1, <2>3, <2>4, <2>5 DEF PinOK, VerifyHostkey, Secrets
  <2> QED
    BY <2>8, <2>9, <2>10
<1>5. CASE CheckSave
  <2>1. check.pc = "connected" /\ row' = [row EXCEPT !.ssh_hostkey = Written]
        /\ check' = [check EXCEPT !.pc = "idle"]
        /\ UNCHANGED <<machine, test, sent, together>>
    BY <1>5 DEF CheckSave
  <2>2. Written \in HostKeys \cup {None}
    BY DEF Written, TypeOK, Rows
  <2>3. PICK r \in Rows : r = row
    BY DEF TypeOK
  <2>4. [r EXCEPT !.ssh_hostkey = Written] \in Rows
        /\ [r EXCEPT !.ssh_hostkey = Written].addr = r.addr
        /\ [r EXCEPT !.ssh_hostkey = Written].username = r.username
        /\ [r EXCEPT !.ssh_hostkey = Written].password = r.password
        /\ [r EXCEPT !.ssh_hostkey = Written].private_key = r.private_key
    BY <2>2 DEF Rows
  <2>5. Secrets(row') = Secrets(r) /\ row'.addr = r.addr /\ row' \in Rows
        /\ row'.username = r.username
    BY <2>1, <2>3, <2>4 DEF Secrets
  <2>6. check'.copy = check.copy /\ check'.pc = "idle" /\ TypeOK'
    BY <2>1, <2>5 DEF TypeOK
  <2>7. BelongsOK'
    BY <2>1, <2>3, <2>5, <2>6 DEF BelongsOK, Secrets
  <2>8. PinOK'
    BY <2>3, <2>5, <2>6 DEF PinOK, Secrets
  <2> QED
    BY <2>6, <2>7, <2>8
<1>6. CASE CheckFail
  <2>1. check' = [check EXCEPT !.pc = "idle"]
        /\ UNCHANGED <<row, machine, test, sent, together>>
    BY <1>6 DEF CheckFail
  <2>2. check'.copy = check.copy /\ check'.pc = "idle" /\ TypeOK'
    BY <2>1 DEF TypeOK
  <2> QED
    BY <2>1, <2>2 DEF BelongsOK, PinOK, Secrets
<1>7. ASSUME NEW f \in Forms, HostTestConnection(f) PROVE Inv'
  <2>1. (UsedStored(f) => f.addr = row.addr)
        /\ test' = [addr |-> f.addr, secrets |-> Filled(f)]
        /\ together' = together \cup (Typed(f) \X {f.addr})
        /\ UNCHANGED <<row, machine, check, sent>>
    BY <1>7 DEF HostTestConnection
  <2>2. Typed(f) \subseteq Passwords \cup PrivateKeys /\ f.addr \in Addrs
    BY DEF Typed, Forms
  <2>3. Filled(f) \subseteq Typed(f) \cup Secrets(row)
    BY TrustAssumption DEF Filled, Typed, Given, Secrets, Forms, TypeOK, Rows
  <2>4. ~UsedStored(f) => Filled(f) \subseteq Typed(f)
    BY TrustAssumption
       DEF Filled, Typed, Given, UsedStored, Forms, TypeOK, Rows
  <2>5. Secrets(row) \subseteq Passwords \cup PrivateKeys
    BY DEF Secrets, TypeOK, Rows
  <2>6. TypeOK'
    BY <2>1, <2>2, <2>3, <2>5 DEF TypeOK
  <2>7. BelongsOK'
    BY <2>1, <2>3, <2>4 DEF BelongsOK, Secrets
  <2> QED
    BY <2>1, <2>6, <2>7 DEF PinOK, Secrets
<1>8. CASE TestConnect
  <2>1. sent' = sent \cup (test.secrets \X {test.addr}) /\ test' = NoTest
        /\ test # NoTest /\ UNCHANGED <<row, machine, check, together>>
    BY <1>8 DEF TestConnect
  <2>2. BelongsOK'
    BY <2>1 DEF BelongsOK, NoTest, Secrets
  <2>3. sent' \subseteq (Passwords \cup PrivateKeys) \X Addrs
    BY <2>2, <2>1 DEF BelongsOK, TypeOK
  <2> QED
    BY <2>1, <2>2, <2>3 DEF TypeOK, NoTest, PinOK, Secrets
<1>9. CASE UNCHANGED vars
  BY <1>9, QuietStep DEF vars, TypeOK
<1> QED
  BY <1>1, <1>2, <1>3, <1>4, <1>5, <1>6, <1>7, <1>8, <1>9 DEF Next

(* A host is created with credentials of its own; nothing is under way.    *)
LEMMA InvInit == Init => Inv
<1> SUFFICES ASSUME Init PROVE Inv
  OBVIOUS
<1>1. row \in Rows /\ Secrets(row) \subseteq Passwords \cup PrivateKeys
      /\ row.addr \in Addrs
  BY DEF Init, Secrets, Rows
<1>2. TypeOK
  BY <1>1 DEF Init, TypeOK, NoTest
<1> QED
  BY <1>1, <1>2 DEF Init, Inv, BelongsOK, PinOK, NoTest, Secrets

(* Stored credentials are used only at an address they were stored or      *)
(* entered together with.                                                  *)
THEOREM Home == Spec => []StoredStaysHome
<1>1. Inv => StoredStaysHome
  BY DEF Inv, BelongsOK, StoredStaysHome
<1> QED
  BY <1>1, InvInit, InvStep, PTL DEF Spec

(* A recorded key is replaced only by way of a reset, and a check that     *)
(* began before the reset does not bring it back.                          *)
THEOREM Pin == Spec => PinOnlyReset
<1> DEFINE Changes == row'.ssh_hostkey # row.ssh_hostkey =>
                        \/ row'.ssh_hostkey = None
                        \/ row.ssh_hostkey = None /\ check.pin = None
<1>1. Inv /\ [Next]_vars => [Changes]_vars
  <2> SUFFICES ASSUME Inv, Next PROVE Changes
    BY DEF vars
  <2>1. ASSUME NEW e \in Edits, HostEditSave(e) PROVE Changes
    BY <2>1 DEF HostEditSave, Edited
  <2>2. CASE CheckSave
    <3>1. check.pc = "connected" /\ row'.ssh_hostkey = Written
      BY <2>2 DEF CheckSave, Inv, TypeOK, Rows
    <3> QED
      BY <3>1 DEF Written, Inv, PinOK
  <2>3. ASSUME UNCHANGED row PROVE Changes
    BY <2>3
  <2> QED
    BY <2>1, <2>2, <2>3 DEF Next, Reinstall, CheckLoad, CheckConnect, CheckFail,
       HostTestConnection, TestConnect
<1> QED
  BY <1>1, InvInit, InvStep, PTL DEF Spec, PinOnlyReset
=============================================================================
