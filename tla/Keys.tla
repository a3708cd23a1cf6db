-------------------------------- MODULE Keys --------------------------------
(***************************************************************************)
(* The key files and what clients and brokers compute from them, and which *)
(* key a client encrypts a message with and opens one with.  A key pair is *)
(* named after its owner, a tenant or "dd" for the brokers; the key two    *)
(* pairs share is the set of their owners.                                 *)
(***************************************************************************)
EXTENDS Naming

\* The files key a tenant by the hash of its public key, the brokers' own pair
\* by the word "dd": no tenant's entry stands in the place of the brokers'.
ASSUME KeysAssumption == "dd" \notin Tenants

\* From the public half of one pair and the private half of the other.
crypto_box_beforenm(pubkey, privkey) == {pubkey, privkey}

\* The key file ddkeygen writes for a tenant.
generate_client_key(tenant) ==
  [hash |-> tenant, privkey |-> tenant, pubkey |-> tenant,
   publicpubkey |-> "public", ddpubkey |-> "dd"]

\* What a key file says of a tenant to the public tenant and to the brokers.
Entry(tenant) == [r |-> tenant, pubkey |-> tenant]

\* The key file of the public tenant: its own keys under "public", and an entry
\* for every other tenant under that tenant's hash.
public_keys ==
  [k \in Tenants |-> IF k = "public" THEN generate_client_key("public") ELSE Entry(k)]

\* The key file of the brokers.
broker_keys ==
  [k \in Tenants \cup {"dd"} |->
     IF k = "dd" THEN [privkey |-> "dd", pubkey |-> "dd"] ELSE Entry(k)]

KeyFile(tenant) == IF tenant = "public" THEN public_keys ELSE generate_client_key(tenant)

BoxKeys(own, ispublic, clientkeys) ==
  [ispublic |-> ispublic, clientkeys |-> clientkeys, hash |-> own.hash,
   ddboxk   |-> crypto_box_beforenm(own.ddpubkey, own.privkey),
   custboxk |-> crypto_box_beforenm(own.pubkey, own.privkey),
   pubboxk  |-> crypto_box_beforenm(own.publicpubkey, own.privkey)]

\* The second pass over the file of the public tenant: tenant |-> shared key.
ClientKeys(file) ==
  [n \in {file[k].r : k \in DOMAIN file \ {"public"}} |->
     LET k == CHOOSE x \in DOMAIN file \ {"public"} : file[x].r = n
     IN crypto_box_beforenm(file[k].pubkey, file["public"].privkey)]

PublicKeys(file) == BoxKeys(file["public"], TRUE, ClientKeys(file))
TenantKeys(file) == BoxKeys(file, FALSE, <<>>)
dd_keys_new(file) == IF "public" \in DOMAIN file THEN PublicKeys(file) ELSE TenantKeys(file)

\* ddboxk is for the other brokers, tenantkeys for the clients: by their hash.
read_ddbrokerkeys(file) ==
  LET dd == file["dd"] IN
  [ddboxk |-> crypto_box_beforenm(dd.pubkey, dd.privkey),
   tenantkeys |-> [h \in DOMAIN file \ {"dd"} |->
                     [name |-> file[h].r, boxk |-> crypto_box_beforenm(file[h].pubkey, dd.privkey)]]]

\* What a client of the tenant has loaded.
KeysOf == [t \in Tenants |-> dd_keys_new(KeyFile(t))]

\* The key of the tenant whose name stands before the first dot of s, which a
\* public client may have.
HasClientKey(keys, s) == Len(s) > 1 /\ s[1] \in DOMAIN keys.clientkeys

\* Mutant of dd_notify: to the public tenant as to the client's own.
NotifyOwnKey(keys, target) ==
  IF keys.ispublic /\ HasClientKey(keys, target) THEN keys.clientkeys[target[1]]
  ELSE keys.custboxk

\* The key dd_notify encrypts a message to target with.
dd_notify(keys, target) ==
  IF IsPublic(target) THEN keys.pubboxk
  ELSE IF keys.ispublic /\ HasClientKey(keys, target) THEN keys.clientkeys[target[1]]
  ELSE keys.custboxk

\* No message is sent.
NotAllowed == {}

\* Mutant of dd_publish: to the public tenant as to the client's own.
PublishOwnKey(keys, topic) == keys.custboxk

\* The key of dd_publish; a public client cannot publish to a tenant.
dd_publish(keys, topic) ==
  IF keys.ispublic /\ HasClientKey(keys, topic) THEN NotAllowed
  ELSE IF IsPublic(topic) THEN keys.pubboxk
  ELSE keys.custboxk

\* The key a notification from source is opened with.
cb_data(keys, source) ==
  IF HasClientKey(keys, source) THEN keys.clientkeys[source[1]]
  ELSE IF IsPublic(source) THEN keys.pubboxk
  ELSE keys.custboxk

\* The key a publication from source is opened with.
cb_pub(keys, source) ==
  IF HasClientKey(keys, source) THEN keys.clientkeys[source[1]]
  ELSE IF IsPublic(source) THEN keys.pubboxk
  ELSE keys.custboxk

\* The broker sends its cookie to a client that shows its hash (s_cb_addlcl) under
\* the tenant's key, and to a broker (s_cb_addbr) under the brokers' key.
ChallengeOpens(keys) ==
  LET brokers == read_ddbrokerkeys(broker_keys) IN
  keys.hash \in DOMAIN brokers.tenantkeys /\ brokers.tenantkeys[keys.hash].boxk = keys.ddboxk
=============================================================================
