# TLA+ models of libusual's certificate extraction and socket shims

This directory holds TLA+ models of two source files of this repository.
They are checked with TLC.

- `src/usual/tls/tls_cert.c` turns the peer certificate of an OpenSSL
  session into a `struct tls_cert_info` that the caller owns. It also
  computes certificate fingerprints.
- `src/usual/socket.c` holds the descriptor helpers: non-blocking mode,
  keepalive, address formatting, `getpeereid`, a `poll()` emulated over
  `select()`, and `win32_socketpair`.

`PROJECT.json` lists the components, runs, mutants, the source lines each
definition models (`map`), the findings and the hazards.

## The system

### Inventory

| Component | Source | State | Operations | Status |
|---|---|---|---|---|
| Certificate metadata extractor | tls_cert.c 127-413 | the result struct and its owned strings, the alt-name array and count, the error message, the X509 reference | `tls_get_peer_cert`, `tls_get_entity`, `tls_cert_get_name_string`, `tls_cert_get_altnames`, `tls_load_alt_ia5string`, `tls_load_alt_ipaddr`, `tls_cert_free` | modelled |
| Field decoders | tls_cert.c 30-125 | none (pure), apart from allocations | `tls_parse_time`, `tls_parse_bigint` | modelled |
| Fingerprint calculator | tls_cert.c 419-467 | caller buffer, scratch digest buffer, X509 reference | `tls_get_peer_cert_fingerprint` | modelled |
| Descriptor configuration | socket.c 37-81 | the descriptor's file status and descriptor flags | `socket_set_nonblocking`, `socket_setup` | modelled |
| Keepalive | socket.c 83-152 | the socket options | `socket_set_keepalive` | modelled |
| `poll()` emulation | socket.c 266-385 | static `readfds`/`writefds` buffers, shared by every call | `fdbuf_zero`, `fdbuf_resize`, `poll` | modelled |
| `win32_socketpair` | socket.c 391-460 | listening socket, two ends, loopback peers | `win32_socketpair` | modelled |
| Address formatting | socket.c 157-188, 226-249 | the caller's `dst` (pure otherwise) | `sa2str`, `inet_ntop` | modelled |
| Peer credentials | socket.c 196-221 | `*uid_p`, `*gid_p`, `errno` | `getpeereid` | modelled |

### How the parts interact

The extractor is the core. `tls_get_peer_cert` runs the following checks and
steps in order, stopping at the first failure:

1. The session is connected.
2. It has a peer certificate.
3. The version is valid.
4. The certificate has a subject and an issuer.
5. The result is allocated with `calloc`.
6. The subject and then the issuer are filled: seven `tls_cert_get_name_string`
   calls each, chained on `ret == 0`.
7. The alt-name array is filled.
8. The two times are decoded.
9. The serial is decoded.

Any failure after the `calloc` goes to `failed:`, which calls
`tls_cert_free` on the partial result. The decoders are leaves.

The fingerprint calculator is independent of the extractor and shares only the
session. The socket helpers are independent of each other and of the TLS code.
`socket_setup` calls `socket_set_nonblocking`. They interact through shared
state in two places:
- several threads may configure one descriptor at once;
- every caller of the emulated `poll()` shares its two static `fd_set`
  buffers.

`win32_socketpair` shares its listening socket with any local process that
connects to it.

## Modules

| Module | Models | Kind |
|---|---|---|
| `CStrings` | C strings as sequences of characters: `%d`, `%02d`, `%2d`, `strsep`, `memchr`, `strdup`; reference decimal reading | helpers |
| `TlsSerial` | `tls_parse_bigint`, with `ASN1_INTEGER_get` under OpenSSL 1.1 and 1.0 semantics and a `long` of `LongBytes` bytes | operators |
| `TlsTime` | `tls_parse_time` character by character, and `ASN1_TIME_print`'s format; reference `IsoTime` | operators |
| `TlsX509` | the inputs: certificates, names, GeneralNames, sessions; `X509_get_ext_d2i`'s NULL | data |
| `TlsCert` | `tls_get_peer_cert` and everything it calls, one action per step | state machine |
| `TlsCertSpec` | what the extractor promises: reject, or return the info of a valid certificate | abstract spec |
| `TlsFingerprint` | `tls_get_peer_cert_fingerprint`, one action per stage | state machine |
| `PollEmu` | `poll()` over `select()` with the static `fd_buf`s, one action per stage of each calling thread | state machine, threads |
| `Win32Socketpair` | `win32_socketpair`, one action per system call, plus another local process connecting | state machine |
| `SockAddr` | `sa2str`, the `inet_ntop` and `getpeereid` fallbacks, one action per call; reference reader of address texts | operators, one-step machine |
| `SocketConfig` | `socket_set_nonblocking`, `socket_setup`, `socket_set_keepalive` (Unix and Windows builds), one action per system call of each thread | state machine, threads |
| `TlsSession` | the two peer-certificate calls of one session, one after the other in either order, composing `TlsCert` with `TlsFingerprint` (as `Fp`) | composition |
| `MCConversions`, `MCTlsCert`, `MCTlsSession`, `MCPollEmu`, `MCWin32Socketpair`, `MCSocketCompat` | the instances TLC checks | MC |

### TlsCert: state and actions

The state of `TlsCert` corresponds to the code as follows.

- `cert` is `struct tls_cert_info`: a record with one field per member.
  - `subject` and `issuer` are functions from the attributes to a string or
    `NULL`.
  - `san` is the `subject_alt_names` array, and `count` is
    `subject_alt_name_count`.
- `heap` is the set of blocks the call owns and has not freed:
  - each strdup'ed attribute, each alt-name slot, the slot array, the
    times, the serial and the struct itself;
  - the decoded GeneralName stack;
  - `"peer"`, the reference `SSL_get_peer_certificate` takes.
- `err` is the sequence of `tls_set_error` messages. `oom` records that an
  allocation failed.
- `pc`, `attr`, `sanIdx`, `rv` and `ret` are the position in the call and its
  locals.

The actions are as follows.

- `GetPeerCert` is lines 313-359: every early return, plus `calloc` of the
  result.
- `GetEntity` is one `tls_cert_get_name_string` call of `tls_get_entity`.
- `GetAltNames` is `tls_cert_get_altnames` up to its loop.
- `AltNameEntry` is one loop iteration. It dispatches to
  `tls_load_alt_ia5string` or `tls_load_alt_ipaddr`. The last iteration or a
  failing one also runs the `out:` free.
- `ParseTime` and `ParseSerial` are the decoder calls. A successful
  `ParseSerial` sets `*cert_p`.
- `Failed` is the `failed:` label.
- `ReleaseCert` is the caller's `tls_cert_free` of a returned result.

Every `malloc`, `calloc` or `strdup` may fail: it is a `\E ok \in
AllocResults`. `BIO_new` and `asprintf` in `tls_parse_time` may also fail.

### Refinement

`TlsCertSpec` has one step, `Extract`. It may always reject, because any
allocation may fail. It may accept only a certificate that satisfies `Valid`
(spec 4.1 and 7), with `Info` of it, where:

- the attributes are as given;
- the kept alt names keep their order, and IP addresses are typed by length;
- the times are canonical ISO 8601;
- the serial is the decimal of its magnitude.

`TlsCert` maps to it through `AbsResult`:

- `pending` until the call returns;
- then `ok` with the struct's contents, or `rejected`.

`Refines` is `Abstract!Spec`. It needs the decoders' outputs to agree with the
reference definitions. So the refinement also checks the time and serial
conversions on the certificates of the model.

### TlsFingerprint: state and actions

A byte is a pair `<<origin, index>>`. This lets a digest byte left in
`tmpbuf`, or one written past the caller's buffer, be told apart from stack
garbage, zero and the caller's old contents.

- `Start` is lines 429-441: `*outlen = 0`, the two session checks and
  `SSL_get_peer_certificate`, which sets `peerHeld`.
- `SelectMd` is the `strcasecmp` chain. `StrCaseEq` lower-cases both names.
- `X509Digest` writes `MdSize[md]` bytes into `tmpbuf`, or fails without
  writing.
- `CopyOut` is lines 458-466:
  - `Clamp`;
  - `memcpy`, whose writes past `buflen` land in `overrun`;
  - `Wipe` (`explicit_bzero`);
  - `*outlen`.

### TlsSession: composing the two certificate calls

The TLS layer may call `tls_get_peer_cert` and
`tls_get_peer_cert_fingerprint` on the same session. `TlsSession` extends
`TlsCert` and instances `TlsFingerprint` as `Fp`, with its variables renamed
`fp...`. `first` records which call runs first. `CertStep` and `FpStep` take
the other call's steps only once the first has returned. `SameSession` gives
the fingerprint call the same connection and peer, the peer being the model
value `PeerCert` because the digest does not depend on its fields.
`PeerRefs` counts the references the library holds on the peer X509: the
`"peer"` block of `TlsCert`'s heap and `Fp`'s `peerHeld`.

The constant `Both` says whether the TLS layer makes the second call at
all. `MCTlsSession` checks the module twice:
- `OneCallSpec`, with `Both = FALSE`, makes one call on each session: the
  call not made stays at one initial state (`FpNotCalled`, `CertNotCalled`),
  so each call is checked on its full sets without the product of the two;
- `SessSpec`, with `Both = TRUE`, makes both calls, for the references they
  share.

### PollEmu: state and actions

`readfds` and `writefds` are global variables, as the `static` buffers are.
Each is `[set, alloc]`: the fds whose bit is set, and `alloc_bytes`. Every
other variable is a function of the thread:
- `pc`, `i` and `fdMax` are the stage and locals;
- `pfd` is the caller's `pollfd` array;
- `ready` is what the kernel marked;
- `ret` and `errno` are the result.

The actions are as follows.

- `Call` is the entry: the timeout check (`EINVAL`) and `fdbuf_zero` of both
  buffers.
- `Convert` is one iteration of the conversion loop:
  - `EBADF` for a negative fd;
  - `fdbuf_resize` of both buffers, which may fail with `ENOMEM`;
  - `FD_SET`;
  - `fd_max`.

  `fdbuf_resize` is the set of its possible outcomes. `Grow` is the doubling
  loop, and the new area is zeroed.
- `Select` is the kernel `select()`. For each set it keeps any subset of the
  bits at or below `fd_max`. Otherwise it returns 0, or -1 for `EINTR`.
- `Collect` is the recount loop, with `CountReady`.

Each stage is one step, so two threads' stages interleave as the code allows.

### Win32Socketpair: state and actions

- `sock` records, for each of `list`, `s1` and `s2`, whether it is `none`
  (-1), `open` or `closed`.
- `backlog` is the listener's queue of connections, oldest first.
- `res`, `lastErr` and `errno` follow the code's `res`, `WSAGetLastError()`
  and `errno`.

The actions are as follows.

- `Start` is the argument checks and `socket()` of the listener.
- `Setup` is `bind`, `listen` and `getsockname`.
- `Socket1`, `Connect`, `Accept` and `Check` are the remaining calls. `Check`
  holds the port comparison `SamePeer`.
- `Failed` is the `failed:` label. `CloseAll` closes every socket that is not
  -1.
- `OtherConnect` is another local process that connects while the listener is
  open.

### SockAddr: state and actions

`call` is the call with its arguments, chosen in `Init`; `res` is `Pending`
until the one action of that call has run. Text is a sequence of characters
as in `CStrings`, and a result records the characters `snprintf()` wrote
into `dst`.

- `Snprintf` is `snprintf()` of a size converted to `size_t`: nothing for 0,
  the whole text and a NUL for a negative size, and otherwise at most
  `size - 1` characters and a NUL.
- `inet_ntop` is lines 226-249: `EINVAL` for a negative `dstlen` or an
  unknown family, dotted decimal for `AF_INET`, and sixteen `Hex2` (`%02x`)
  groups joined by `:` for `AF_INET6`.
- `sa2str` is lines 157-188: the address from `inet_ntop` into the 128-byte
  stack buffer, then `:` (IPv4) or `/` (IPv6) and the decimal of
  `ntohs(sin_port)`; `unix:` and `sun_path`; or the unknown-family text.
- `getpeereid` is lines 196-221 on each build: `SO_PEERCRED`,
  `getpeerucred()` with the ids converted to a `UidBits`-bit unsigned
  `uid_t` (`UidT`) before the `>= 0` check, or `ENOSYS`.
- `Sa2str`, `InetNtop` and `Getpeereid` are the calls.

`ReadAddr` and `Denotes` read a text back as `inet_pton()` and a port parser
would. They are written from the standards, not from the fallback's format
strings: dotted decimal for IPv4, and for IPv6 (`ReadV6`) the RFC 4291 text
of eight groups of one to four hex digits, with at most one `::` standing
for one or more zero groups. The fallback's IPv6 text, sixteen two-digit
bytes, is not such a text, and the `addr_v6_text` run shows it.
`MCConversions` composes this module (as `SA`) with the decoders: a state
holds either a decoder call or an address call.

### SocketConfig: state and actions

An operation is turned by `Calls` into the list of system calls its
`#ifdef`s compile to under the `build` chosen in `Init` from `Builds`:
- `F_GETFL`/`F_SETFL` for `socket_set_nonblocking`;
- `SO_NOSIGPIPE`, `F_SETFD` and those two for `socket_setup`;
- `SO_KEEPALIVE` and the TCP options whose argument is nonzero (positive for
  `keepcnt`) for `socket_set_keepalive` on a Unix build;
- on a build with `SIO_KEEPALIVE_VALS` (Windows), `SO_KEEPALIVE` and then one
  `WSAIoctl` whose value is `KeepaliveVals`: idle and interval in
  milliseconds, with 300 s and 15 s put in for the one not asked. `ULong`
  wraps the product at `ULongBits`, as the `u_long` of the code does.

`Begin` starts a thread's next operation. Each call is then one step:
- `CallOk` applies the call to `fl`, `cloexec` or `sopt`. `F_SETFL` writes
  `NewFlags` of the thread's local `flags`.
- `CallFails` is the error path. `Tolerated` lets `ENOPROTOOPT` of a TCP
  option go on. Any other error returns false.

## Runs

| Run | Cfg | Expect | Shows |
|---|---|---|---|
| `conversions` | MCConversions.cfg | pass | One call of a decoder or an address helper. `SerialExact`: every non-negative serial of up to three bytes decodes to its exact decimal under OpenSSL 1.1 semantics, on both the `%lu` path and the `BN_bn2dec` path. `TimeDecoded`: UTCTime-range GMT times decode to canonical `YYYY-MM-DDTHH:MM:SSZ`, including space-padded days and boundary clocks, and fail only when invalid or out of memory. `AddrText`: for every `dstlen > 0`, `sa2str` and `inet_ntop` write at most `dstlen` characters with a NUL among them, and an IPv4, Unix or unknown-family text not cut short reads back as the sockaddr's address, port (in network byte order) and path. `getpeereid` runs on all three builds. |
| `time_zone` | MCConversions_Zone.cfg | violation | `TimeZoneChecked`: a valid time whose zone is not GMT is accepted and stamped `Z`. `ASN1_TIME_print` prints no zone token for it, so the `tz` test at line 103 never fires; spec 4.1 and 8 say `InvalidTime`. |
| `addr_v6_text` | MCConversions_V6.cfg | violation | `V6AddrText`: the fallback's IPv6 text (`fe:80:00:...:01`) is not one `inet_pton()` accepts, in `inet_ntop` and in `sa2str`. |
| `cert_calls` | MCTlsSession_Calls.cfg | pass | One call, `tls_get_peer_cert` or `tls_get_peer_cert_fingerprint`, on every session. See the list after this table. |
| `cert_unknown_san` | MCTlsCert_UnknownSan.cfg | violation | A valid certificate whose first alt name is of an ignored type is rejected, with no error message. |
| `session_refs` | MCTlsSession.cfg | violation | `PeerRefsDropped`: after both calls of one session have returned, the library still holds a peer reference. `tls_get_peer_cert` keeps its reference on an early return (tls_cert.c:330), and `tls_get_peer_cert_fingerprint` never releases its own (tls_cert.c:437). |
| `cert_bad_ext` | MCTlsCert_BadExt.cfg | violation | An undecodable subjectAltName extension is treated as absent, and the certificate is accepted. |
| `poll_seq` | MCPollEmu.cfg | pass | `SelectArgs`: `select()` gets sets holding exactly the requested fds, inside the buffers. `PollResult`: a positive result reports exactly the ready requested events, and counts entries. |
| `poll_threads` | MCPollEmu_Threads.cfg | violation | With two threads, one thread's `FD_SET` after the other's `select()` makes the other report an event on one of its own fds that `select()` did not find ready. |
| `poll_contract` | MCPollEmu_Contract.cfg | violation | `PollContract`: a call that times out returns 0 with the `revents` the caller left set before it; poll(2) clears them. With fd -1 among the values the same property fails on the `EBADF` return. |
| `socket_compat` | MCSocketCompat.cfg | pass | Either two threads on one `O_APPEND` descriptor, on a Unix build (SO_NOSIGPIPE and the TCP options) or a Windows one (`SIO_KEEPALIVE_VALS`), or one `win32_socketpair` call. `KeepaliveResult`: false only on a real error, and after true the asked options hold, on Windows as milliseconds. `DescriptorFlags`: with the threads' `F_GETFL`/`F_SETFL` interleaved, only `O_NONBLOCK` changes and the last `F_SETFL` decides it; a successful `socket_setup` has set `FD_CLOEXEC` and `SO_NOSIGPIPE`. `PairConnected`: with other connectors only on 127.0.0.1, a success pairs `s1` with its own accepted end. `SocketsClosed`: every path closes what it should. |
| `socketpair_spoof` | MCWin32Socketpair_Spoof.cfg | violation | A connector from 127.0.0.2 with the same port as `s1` is accepted as `sv[1]`. |

The `cert_calls` run checks these properties:

- `TypeOK`.
- `NoLeak`: nothing allocated survives a failed call or the caller's free,
  the name string freed on the NUL path included.
- `SlotsFilled`: the alt-name count always matches the filled slots.
- `ErrorOnce`: at most one error message, and none on success.
- `Refines`: `TlsCertSpec` is implemented.
- `FingerprintOut`: a fingerprint success copies exactly `min(size, buflen)`
  digest bytes, nothing is written past `buflen`, and `*outlen` is never
  stale.
- `ScratchWiped`: `tmpbuf` holds no digest byte on return.

`MCSocketCompat` is an either-or instance like `MCConversions`: a state
holds either the `SocketConfig` threads or one `win32_socketpair` call (as
`SP`), the other at one initial state. The two do not interact.

Each property of a passing run has a mutant in `PROJECT.json`: a plausible
bug in a mapped definition that TLC finds.

- `tls_parse_bigint` skips only `-1`: `SerialExact` fails.
- The day patch looks one character early: `TimeDecoded` fails.
- The alt-name loop runs to `i <= count`: `TypeOK` fails.
- `tls_cert_free` skips the last slot, or the NUL path keeps `res`: `NoLeak` fails.
- The IP loader counts the slot before `malloc` succeeds: `SlotsFilled` fails.
- The chain proceeds on `-2`: `ErrorOnce` fails.
- The single-space check is dropped: `Refines` fails.
- The fingerprint copy is not clamped (`FingerprintOut`), or the wipe covers
  only the copied bytes (`ScratchWiped`).
- `fdbuf_resize` does not zero the new area (`SelectArgs`).
- The recount adds events instead of entries (`PollResult`).
- `sin_port` is printed without `ntohs` (`AddrText`).
- The socketpair sanity check is dropped (`PairConnected`), or `s2` is not
  closed at `failed:` (`SocketsClosed`).
- Any TCP option error is tolerated, or the Windows values are passed in seconds (`KeepaliveResult`).
- The new flags are built from `O_NONBLOCK` alone (`DescriptorFlags`).

### Bounds and why they suffice

- **Serials.** `LongBytes = 2` scales `long` down to 16 bits. Serials run up
  to 3 bytes, with the bytes 1, 127, 128 and 255. This puts values on both
  sides of `LONG_MAX` and of the byte boundaries. The code's decision is
  `small < 0`, which depends only on whether the value fits.
- **Times.**
  - Years 1950 and 2049 are the ends of the UTCTime range.
  - Months 1, 9 and 12 are the ends of the table plus the last single-digit
    month.
  - Days 1, 9, 10 and 31 are space-padded and two-digit days.
  - The clocks are 00:00:00 and 23:59:59, with GMT or not; `TimeDecoded`
    judges the GMT ones and `TimeZoneChecked` the others.
- **Addresses.** Two IPv4 addresses (one with a byte of 255), `fe80::1`
  and `fe80::ff` (bytes below 16, where `%02x` pads), ports 80, 8080 and
  65535 given as network-order bytes (80 is asymmetric, so a missing
  `ntohs` shows), a Unix path and the empty one, and family 17. `dstlen` is
  -1, 0, 1, 12 and 64: the edge cases of `snprintf`, a size that cuts every
  address, and one that holds every text. `getpeereid` gets a failing query,
  root, a user, and on the `getpeerucred()` build the -1 of a failed
  `ucred_geteuid()`/`ucred_getegid()`; `uid_t` is scaled to 16 bits.
- **Certificates.**
  - Two attributes, CN and O, cover the chain of `tls_get_entity`. Each of the
    seven calls is the same function, so more attributes add only length.
  - There are two DNs: one clean with a missing attribute, one with NUL bytes.
  - There are up to 2 alt names, drawn from 9 GeneralNames that cover every
    branch of both loaders and the ignore branch. With two entries, every
    entry kind appears both first and second, so a failure can follow a
    filled slot.
  - Times are valid and invalid. Serials are short and too long for a
    `long`. Versions are -1 and 2.
  - Every allocation may fail.
  - With the fingerprint calls this gives 55,864 distinct states, checked
    in about half a minute.
- **Fingerprints.** The sessions are: not connected, no peer, and a peer.
  - The names are `sha1`, `SHA256`, `Sha1`, `md5` and `sha2`: both digests,
    mixed case, an unknown name, and a prefix of a known one.
  - `buflen` is 0, 19, 20, 31 and 40: zero, one below, at and above each
    digest size.
- **poll.** The fds are -1, 5 and 2048. 2048 needs 288 bytes, so the buffers
  double from 256 to 512 and must zero the new area. The timeouts are -2,
  -1 (no timeout) and 0: every timeout of 0 or more takes the same path
  through the code, and only whether there is one matters to `select()`.
  - The sequential run has one thread making two calls of up to two entries,
    so the second call sees the first call's buffers.
  - The thread run has two threads with one entry each, which is the
    smallest case for the race.
  - The contract run has one thread, one call and valid fds only, so its
    counterexample is the stale `revents`.
- **win32_socketpair.** The domains are `AF_INET`, `AF_UNIX` and `AF_INET6`.
  There are three ports, so the other process can hold a port that `s1` then
  avoids or shares, and every call may fail.
  The listener's queue is not capped at the `listen(list, 1)` backlog, which
  the system may treat as a hint, and `s1` may get the port another socket
  holds on another loopback address. The spoof trace needs both.
- **SocketConfig.** Thread `t1` runs two operations per sequence:
  - setup followed by keepalive;
  - keepalive on and then off;
  - a negative `keepcnt`;
  - a `keepintvl` only;
  - nonblock and then setup.

  Meanwhile `t2` runs nonblock(FALSE) or setup(TRUE) on the same descriptor.
  There are two builds. The Unix build has `SO_NOSIGPIPE` and the three
  Linux/BSD TCP options, and the kernel lacks `TCP_KEEPCNT`, so the
  `ENOPROTOOPT` path runs. The Windows build has `SIO_KEEPALIVE_VALS` alone.
  `ULongBits = 30` scales the 32-bit `u_long` so that TLC's integers hold
  the product, and the idle values stay far below the wrap, so the check is
  about the conversion, not the overflow. Only `t1` sets keepalive, because
  two concurrent keepalive settings would make the last writer's values
  win, which the code neither prevents nor promises.

- **TlsSession.** Two names (clean, and with an embedded NUL), alt-name
  lists of at most one entry out of three (accepted, rejected, skipped), one
  time and one serial, failing allocations and digests, versions -1 and 2 (an invalid and a valid one),
  the algorithms sha1, SHA256 and md5 (unknown), and buffer lengths 0 and
  20. Both orders of the two calls are explored. The invalid version is the
  shortest early return of `tls_get_peer_cert` that still holds the peer.

### Fairness

No run checks a liveness property. Every function modelled is a bounded
sequence of calls that returns unless a system call blocks: `select()` with
a NULL timeout may block for ever, and with a timeout it returns only if the
kernel honours it. A property that a call returns would hold only by the
fairness assumed for the kernel, and show nothing about this code. The runs
check safety only. `CHECK_DEADLOCK FALSE` is set because a returned call, or
a thread that has made its calls, has no further step.

### Behaviour seen in the models and not given a run

These are listed as hazards in `PROJECT.json`, at their lines.

- `win32_socketpair` sets `errno` to `EFAULT` when `socket()` for `s1` or
  `accept()` fails, because `res` still holds the 0 of the previous call.
- Under OpenSSL 1.0 on LP64 (`Asn1Get10 = TRUE` in `TlsSerial`), a serial
  longer than a `long` formats as `4294967295`. A negative serial keeps its
  `-`. A GeneralizedTime year below 1000 has fewer than four digits.

## Not modelled, and the plan

- **Windows defaults as a property.** On Windows, asking only for an idle
  time also sets the interval to 15 s (socket.c:141). The model computes
  this, but the code does not say whether the caller should expect it, so
  no property judges it.
- **A `sun_path` without a NUL.** `SockAddr` takes the path as a C string.
  A path filling all of `sun_path` would make `%s` read past the struct,
  which is memory the model has no state for.
- **The `getpeereid` uid check as a property.** The unsigned `>= 0` at line
  213 is always true. The model reaches the resulting 0 return with uid
  65535, but a property for it would restate one comparison.
- **A flag writer outside this file.** `socket_set_nonblocking`'s
  read-modify-write would lose a flag set by another module between
  `F_GETFL` and `F_SETFL`. That writer is not code of this repository, so
  only this file's own callers are interleaved. Between them only
  `O_NONBLOCK` changes and the last write wins, as in a serial order, so
  `DescriptorFlags` cannot show the lost update.
- **What a failed `X509_digest` leaves in `tmpbuf`.** The failure return
  skips the wipe. The model has the library write nothing into `tmpbuf` on
  failure; what a real failure leaves there is the library's business, and
  no digest of this certificate exists to leak.
- **The OpenSSL 1.0 serial path as a run.** `TlsSerial` models it
  (`Asn1Get10`), but the run slots go to the behaviours above.

Next:
- liveness for a caller that retries `poll()` on `EINTR`, which needs a
  fairness assumption on signals that the code cannot justify;
- a refinement of `PollEmu` to an atomic poll(2) specification, which the
  thread run already shows fails under concurrency.
