---------------------------- MODULE MCUserStore ----------------------------
(* The server and the command line tool over one account and a second name. *)
EXTENDS UserStore

Form(password, expiresAt, disable, devices) ==
  [passwordMD5 |-> password, expiresAt |-> expiresAt, disabled |-> disable, devices |-> devices]

TheAccounts ==
  [n \in {"alice"} |-> Assign(Form("pw", 2, FALSE, {"phone"}), [createdAt |-> 1, lastLoginAt |-> 0])]

Login(device) == [kind |-> "login", name |-> "alice", password |-> "pw", device |-> device]
Ask(kind, n) == [kind |-> kind, name |-> n]
Change(kind, n, fields) == [kind |-> kind, name |-> n, fields |-> fields]

TheRequests ==
  [p \in {"server", "tool"} |->
     IF p = "server"
     THEN {Login("phone"), Login("other"), Ask("list", "alice"), Ask("delete", "alice"),
           Change("update", "alice", [disabled |-> TRUE]),
           Change("add", "bob", Form("pw", 0, FALSE, {}))}
     ELSE {Change("patch", "alice", [disabled |-> TRUE]), Change("patch", "alice", [disabled |-> FALSE]),
           Change("patch", "bob", [passwordMD5 |-> "new"]), Ask("delete", "bob"),
           Change("add", "alice", Form("new", 0, FALSE, {}))}]
=============================================================================
