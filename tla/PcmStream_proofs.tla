-------------------------- MODULE PcmStream_proofs --------------------------
(***************************************************************************)
(* Theorems about a playback stream, for every size of the buffer, of the  *)
(* periods and of the boundary.                                            *)
(*                                                                         *)
(* Base, of every handle: the types, hw_ptr_base at the start of a buffer, *)
(* the engine on exactly when the state is RUNNING, and a chunk within the *)
(* room that was found for it.  It gives PcmTypes and PcmDmaFollowsState.  *)
(*                                                                         *)
(* Exactly, of a handle that no close has reset, when the jiffies cannot   *)
(* mislead the interrupt (Timely): hw_ptr is lag frames behind the card    *)
(* and hw_ptr_base the start of its buffer; the queue begins at the card   *)
(* and ends at appl_ptr, and is in the ring; the chunk of a write fits     *)
(* behind it; and an old frame is left only where the next update puts     *)
(* silence, which is why the card does not meet it.  None of these holds   *)
(* by itself: the update finds the position because it was exact and less  *)
(* than a buffer has passed, the silence spares the queue because avail is *)
(* exact, and avail is because hw_ptr is.                                  *)
(*                                                                         *)
(* Carried, of the same handle with the frames of its client: what is in   *)
(* the queue is what was written, which makes the stream a Playback.       *)
(*                                                                         *)
(* The arithmetic that the provers do not do comes first: remainders of    *)
(* sums, and the places of the ring seen from a pointer below the          *)
(* boundary.                                                               *)
(***************************************************************************)
EXTENDS PcmClient, TLAPS

-----------------------------------------------------------------------------
(***************************************************************************)
(* Arithmetic modulo a number that is not known.                           *)
(***************************************************************************)
(* Quotient and remainder.                                                 *)
LEMMA Division ==
  ASSUME NEW n \in Nat, n > 0, NEW b \in Int
  PROVE  b % n \in 0 .. n - 1 /\ b \div n \in Int /\ b = n * (b \div n) + (b % n)
OBVIOUS

(* A multiple of n between -n and n is zero.                               *)
LEMMA SmallMultiple ==
  ASSUME NEW n \in Nat, n > 0, NEW k \in Int, k * n < n, k * n > 0 - n
  PROVE  k = 0
<1>1. ASSUME k >= 1 PROVE k * n >= n
  BY <1>1
<1>2. ASSUME k <= -1 PROVE k * n <= 0 - n
  BY <1>2
<1> QED
  BY <1>1, <1>2

(* The remainder is unique.                                                *)
LEMMA Remainder ==
  ASSUME NEW n \in Nat, n > 0, NEW q \in Int, NEW r \in 0 .. n - 1
  PROVE  (q * n + r) % n = r
<1> DEFINE x == q * n + r
           k == q - (x \div n)
<1>1. x \in Int /\ x % n \in 0 .. n - 1 /\ x \div n \in Int /\ x = n * (x \div n) + (x % n)
  BY Division
<1>2. k * n = (x % n) - r
  BY <1>1
<1>3. k \in Int /\ k * n < n /\ k * n > 0 - n
  BY <1>1, <1>2
<1>4. k = 0
  <2> HIDE DEF k
  <2> QED
    BY <1>3, SmallMultiple
<1>5. x % n = r
  BY <1>1, <1>2, <1>4
<1> QED
  BY <1>5

(* Multiples of n do not count.                                            *)
LEMMA DropMultiple ==
  ASSUME NEW n \in Nat, n > 0, NEW b \in Int, NEW k \in Int
  PROVE  (b + k * n) % n = b % n
<1>1. b % n \in 0 .. n - 1 /\ b \div n \in Int /\ b = n * (b \div n) + (b % n)
  BY Division
<1> DEFINE q == b \div n + k
           r == b % n
<1>2. q \in Int /\ r \in 0 .. n - 1 /\ b + k * n = q * n + r
  BY <1>1
<1> HIDE DEF q, r
<1>3. (q * n + r) % n = r
  BY <1>2, Remainder
<1>4. (b + k * n) % n = r
  BY <1>2, <1>3
<1> QED
  BY <1>4 DEF r

(* A number and zero leave no remainder.                                   *)
LEMMA Itself == ASSUME NEW n \in Nat, n > 0 PROVE n % n = 0 /\ 0 % n = 0
<1>1. (0 + 1 * n) % n = 0 % n
  BY DropMultiple
<1>2. 0 % n = 0
  OBVIOUS
<1>3. 0 + 1 * n = n
  OBVIOUS
<1> QED
  BY <1>1, <1>2, <1>3

(* Nor does a number that n divides.                                       *)
LEMMA DropDivisible ==
  ASSUME NEW n \in Nat, n > 0, NEW b \in Int, NEW c \in Int, c % n = 0
  PROVE  (b + c) % n = b % n /\ (b - c) % n = b % n
<1> DEFINE k == c \div n
           j == 0 - k
<1>1. k \in Int /\ c = k * n
  BY Division
<1>2. j \in Int /\ b + c = b + k * n /\ b - c = b + j * n
  BY <1>1
<1> HIDE DEF k, j
<1>3. (b + k * n) % n = b % n /\ (b + j * n) % n = b % n
  BY <1>1, <1>2, DropMultiple
<1> QED
  BY <1>2, <1>3

(* What is left when the remainder is taken away.                          *)
LEMMA Floor ==
  ASSUME NEW n \in Nat, n > 0, NEW b \in Int
  PROVE  (b - (b % n)) % n = 0
OBVIOUS

(* The remainder of a number at or shortly after a multiple.               *)
LEMMA AfterMultiple ==
  ASSUME NEW n \in Nat, n > 0, NEW b \in Int, NEW x \in Int, b % n = 0, b <= x, x < b + n
  PROVE  x % n = x - b
<1> DEFINE z == x - b
<1>1. z \in Int /\ 0 <= z /\ z < n
  OBVIOUS
<1> HIDE DEF z
<1>2. z % n = z
  BY <1>1
<1>3. (x - b) % n = x - b
  BY <1>2 DEF z
<1> QED
  BY <1>3, DropDivisible

(* Two multiples are at least n apart.                                     *)
LEMMA NextMultiple ==
  ASSUME NEW n \in Nat, n > 0, NEW b \in Int, NEW c \in Int,
         b % n = 0, c % n = 0, b < c
  PROVE  b + n <= c
<1> SUFFICES ASSUME c < b + n PROVE FALSE
  OBVIOUS
<1>1. c % n = c - b
  BY AfterMultiple
<1> QED
  BY <1>1

(* Divisibility is transitive.                                             *)
LEMMA DivisibleTwice ==
  ASSUME NEW n \in Nat, n > 0, NEW m \in Nat, m > 0, NEW c \in Int,
         m % n = 0, c % m = 0
  PROVE  c % n = 0
<1> DEFINE k == c \div m
           q == m \div n
           j == k * q
<1>1. k \in Int /\ c = k * m /\ q \in Int /\ m = q * n
  BY Division
<1>2. c = (k * q) * n /\ k * q \in Int
  BY <1>1
<1> HIDE DEF k, q, j
<1>3. j \in Int /\ c = 0 + j * n
  BY <1>2 DEF j
<1>4. (0 + j * n) % n = 0 % n
  BY <1>3, DropMultiple
<1> QED
  BY <1>3, <1>4

(* A remainder modulo a multiple of n has the same remainder modulo n.     *)
LEMMA TwoModuli ==
  ASSUME NEW n \in Nat, n > 0, NEW m \in Nat, m > 0, NEW c \in Int, m % n = 0
  PROVE  (c % m) % n = c % n
<1> DEFINE z == c % m
           q == c \div m
           d == q * m
<1>1. q \in Int /\ z \in Int /\ c = d + z
  BY Division
<1> HIDE DEF z, q
<1>2. d \in Int /\ (0 + q * m) % m = 0 % m
  BY <1>1, DropMultiple
<1>3. d % m = 0
  BY <1>1, <1>2
<1> HIDE DEF d
<1>4. d % n = 0
  BY <1>2, <1>3, DivisibleTwice
<1>5. (z + d) % n = z % n
  BY <1>1, <1>2, <1>4, DropDivisible
<1> QED
  BY <1>5, <1>1, <1>2 DEF z

-----------------------------------------------------------------------------
(***************************************************************************)
(* The types and the state of the engine, of every handle.                 *)
(***************************************************************************)
States == {"OPEN", "SETUP", "PREPARED", "RUNNING", "XRUN", "PAUSED"}

(* The runtimes that TypeOK allows.                                        *)
Runtime ==
    [state : States, appl_ptr : 0 .. Boundary - 1, hw_ptr : 0 .. Boundary - 1,
     hw_ptr_base : 0 .. Boundary - BufferSize, hw_ptr_interrupt : 0 .. Boundary - 1,
     elapsed : 0 .. Long, silence_filled : {0, BufferSize},
     dma_area : [Slots -> Contents], running : BOOLEAN,
     pos : 0 .. Boundary - 1, lag : 0 .. MaxLag, queued : Nat, starved : BOOLEAN]

(* What holds of the runtime between any two sections: hw_ptr_base is the  *)
(* start of a buffer, and the engine follows the state.                    *)
Sound(r) ==
    /\ r \in Runtime
    /\ r.hw_ptr_base % BufferSize = 0
    /\ r.running <=> r.state = "RUNNING"

(* The numbers.                                                            *)
LEMMA Sizes ==
  /\ BufferSize \in Nat /\ 0 < BufferSize /\ PeriodSize \in Nat /\ 0 < PeriodSize
  /\ Boundary \in Nat /\ 2 * BufferSize <= Boundary /\ Boundary % BufferSize = 0
  /\ BufferSize % PeriodSize = 0
  /\ MaxLag \in Nat /\ MaxLag < BufferSize /\ Long \in Nat
  /\ 0 \in 0 .. Long /\ 0 \in 0 .. MaxLag /\ 0 \in 0 .. Boundary - 1
  /\ 0 \in 0 .. Boundary - BufferSize /\ Long \in 0 .. Long
BY StreamAssumption DEF Long

(* avail is a number of frames, whatever the pointers are.                 *)
LEMMA AvailType ==
  ASSUME NEW r \in Runtime
  PROVE  snd_pcm_playback_avail(r) \in 0 .. Boundary - 1
<1> DEFINE h == r.hw_ptr
           a == r.appl_ptr
<1>1. h \in 0 .. Boundary - 1 /\ a \in 0 .. Boundary - 1
  BY DEF Runtime
<1>2. snd_pcm_playback_avail(r) =
        LET room == IF BufferSize > a THEN h + BufferSize - a
                    ELSE IF a - h < 0 \/ a - h > BufferSize THEN 0
                    ELSE BufferSize - (a - h)
        IN  IF room >= Boundary THEN room - Boundary ELSE room
  BY DEF snd_pcm_playback_avail
<1> HIDE DEF h, a
<1> QED
  BY <1>1, <1>2, Sizes

(* Filling with silence changes the area only.                             *)
LEMMA FillSound ==
  ASSUME NEW r, Sound(r), NEW from, NEW frames
  PROVE  LET u == fill_silence_frames(r, from, frames)
         IN  Sound(u) /\ u.state = r.state
<1> DEFINE A == [i \in Slots |-> IF (i - from) % BufferSize < frames THEN "silence"
                                 ELSE r.dma_area[i]]
           u == [r EXCEPT !.dma_area = A, !.silence_filled = BufferSize]
<1>1. r \in Runtime
  BY DEF Sound
<1>2. fill_silence_frames(r, from, frames) = u
  BY <1>1 DEF fill_silence_frames, Runtime
<1>3. A \in [Slots -> Contents]
  BY <1>1 DEF Runtime, Contents
<1> HIDE DEF A
<1>4. /\ u \in Runtime /\ u.state = r.state /\ u.running = r.running /\ u.dma_area = A
      /\ u.hw_ptr_base = r.hw_ptr_base
  BY <1>1, <1>3 DEF Runtime
<1>5. Sound(u)
  BY <1>4 DEF Sound
<1> HIDE DEF u
<1> QED
  BY <1>2, <1>4, <1>5

(* silence_init changes the area only.                                     *)
LEMMA SilenceInitSound ==
  ASSUME NEW r, Sound(r)
  PROVE  /\ Sound(silence_init(r)) /\ silence_init(r).state = r.state
<1> DEFINE queue == snd_pcm_playback_hw_avail(r)
           filled == IF queue < 0 \/ queue > BufferSize THEN BufferSize ELSE queue
           from == r.hw_ptr + filled
           frames == BufferSize - filled
<1>1. silence_init(r) = fill_silence_frames(r, from, frames)
  BY DEF silence_init
<1> HIDE DEF from, frames
<1> QED
  BY <1>1, FillSound

(* So does the silence of an update.                                       *)
LEMMA SilenceSound ==
  ASSUME NEW r, Sound(r), NEW n
  PROVE  /\ Sound(snd_pcm_playback_silence(r, n))
         /\ snd_pcm_playback_silence(r, n).state = r.state
<1> DEFINE filled == r.silence_filled - ((n - r.hw_ptr) % Boundary)
           frames == BufferSize - filled
<1>1. \/ snd_pcm_playback_silence(r, n) = fill_silence_frames(r, n, BufferSize)
      \/ snd_pcm_playback_silence(r, n) = fill_silence_frames(r, r.hw_ptr, frames)
  BY DEF snd_pcm_playback_silence
<1> HIDE DEF frames
<1> QED
  BY <1>1, FillSound

(* A stop leaves the engine off.                                           *)
LEMMA StopSound ==
  ASSUME NEW r, Sound(r), NEW st \in States \ {"RUNNING"}
  PROVE  /\ Sound(snd_pcm_stop(r, st))
         /\ snd_pcm_stop(r, st).state \in {r.state, st}
         /\ snd_pcm_stop(r, st).state # "RUNNING"
<1> DEFINE b == r.running /\ ~(r.state = "RUNNING")
           u == [r EXCEPT !.running = b, !.state = st]
<1>1. r \in Runtime /\ b \in BOOLEAN /\ r.running \in BOOLEAN
  BY DEF Sound, Runtime
<1>2. b = FALSE
  BY <1>1 DEF Sound
<1>3. u \in Runtime /\ u.state = st /\ u.running = b /\ u.hw_ptr_base = r.hw_ptr_base
  <2> HIDE DEF b
  <2> QED
    BY <1>1 DEF Runtime
<1>4. Sound(u)
  BY <1>2, <1>3 DEF Sound
<1>5. r.state # "OPEN" => snd_pcm_stop(r, st) = u
  BY <1>1 DEF snd_pcm_stop, snd_pcm_running, Runtime
<1>6. r.state = "OPEN" => snd_pcm_stop(r, st) = r
  BY DEF snd_pcm_stop
<1> HIDE DEF u
<1> QED
  BY <1>3, <1>4, <1>5, <1>6

(* The check against stop_threshold leaves the state, or stops in XRUN.    *)
LEMMA UpdateStateSound ==
  ASSUME NEW r, Sound(r)
  PROVE  /\ Sound(snd_pcm_update_state(r))
         /\ snd_pcm_update_state(r).state \in {r.state, "XRUN"}
BY StopSound DEF snd_pcm_update_state, States

(* The next buffer begins at a multiple below the boundary.                *)
LEMMA NextBaseSound ==
  ASSUME NEW b \in 0 .. Boundary - BufferSize, b % BufferSize = 0
  PROVE  /\ NextBase(b) \in 0 .. Boundary - BufferSize /\ NextBase(b) % BufferSize = 0
         /\ NextBase(b) = IF b = Boundary - BufferSize THEN 0 ELSE b + BufferSize
<1>1. b \in Int /\ BufferSize \in Nat /\ BufferSize \in Int /\ BufferSize > 0
  BY Sizes
<1>0. BufferSize % BufferSize = 0 /\ 0 % BufferSize = 0
  BY Sizes, Itself
<1>2. (b + BufferSize) % BufferSize = 0
  BY <1>0, <1>1, DropDivisible
<1> DEFINE c == b + BufferSize
<1>3. c \in Int /\ c % BufferSize = 0 /\ c <= Boundary
  BY <1>1, <1>2, Sizes
<1> HIDE DEF c
<1>4. c < Boundary => c + BufferSize <= Boundary
  BY <1>3, Sizes, NextMultiple
<1> QED
  BY <1>0, <1>1, <1>3, <1>4, Sizes DEF NextBase, c

(* An update of the pointer keeps it below the boundary, whatever the card *)
(* and the clock said, and at most stops the stream.                       *)
LEMMA UpdateSound ==
  ASSUME NEW r, Sound(r), NEW in \in BOOLEAN
  PROVE  LET u == snd_pcm_update_hw_ptr0(r, in)
         IN  Sound(u) /\ u.state \in {r.state, "XRUN"}
<1> DEFINE at == r.pos % BufferSize
           late == /\ in
                   /\ r.hw_ptr_interrupt + PeriodSize > r.hw_ptr_base + at
                   /\ r.elapsed > BufferSize \div 2 + 1
           wrapped == late \/ r.hw_ptr_base + at < r.hw_ptr
           base == IF wrapped THEN NextBase(r.hw_ptr_base) ELSE r.hw_ptr_base
           new == base + at
           seen == [r EXCEPT !.lag = 0]
           since == (new - r.hw_ptr_interrupt) % Boundary
           quiet == snd_pcm_playback_silence(seen, new)
           int == IF in THEN (quiet.hw_ptr_interrupt + since - (since % PeriodSize)) % Boundary
                  ELSE quiet.hw_ptr_interrupt
           moved == [quiet EXCEPT !.hw_ptr = new, !.hw_ptr_base = base, !.elapsed = 0,
                                  !.hw_ptr_interrupt = int]
           still == [seen EXCEPT !.elapsed = 0]
           u == snd_pcm_update_hw_ptr0(r, in)
<1>1. /\ r \in Runtime /\ r.hw_ptr_base \in 0 .. Boundary - BufferSize
      /\ r.hw_ptr_base % BufferSize = 0 /\ r.pos \in 0 .. Boundary - 1
  BY DEF Sound, Runtime
<1>2. base \in 0 .. Boundary - BufferSize /\ base % BufferSize = 0
  BY <1>1, NextBaseSound
<1>3. at \in 0 .. BufferSize - 1
  BY <1>1, Sizes
<1>4. new \in 0 .. Boundary - 1
  <2> HIDE DEF base, at
  <2> QED
    BY <1>2, <1>3, Sizes
<1>5. /\ Sound(seen) /\ seen.state = r.state /\ seen \in Runtime
  BY <1>1, Sizes DEF Sound, Runtime
<1>6. Sound(quiet) /\ quiet.state = r.state
  BY <1>5, SilenceSound
<1> HIDE DEF seen, quiet, base, at, new
<1>7. quiet \in Runtime /\ quiet.hw_ptr_interrupt \in 0 .. Boundary - 1
  BY <1>6 DEF Sound, Runtime
<1>8. int \in 0 .. Boundary - 1
  <2>1. new - r.hw_ptr_interrupt \in Int
    BY <1>1, <1>4 DEF Runtime
  <2>2. since \in 0 .. Boundary - 1
    BY <2>1, Sizes
  <2> HIDE DEF since
  <2>3. since % PeriodSize \in Int
    BY <2>2, Sizes
  <2> DEFINE z == quiet.hw_ptr_interrupt + since - (since % PeriodSize)
  <2>4. z \in Int
    BY <2>2, <2>3, <1>7
  <2> HIDE DEF z
  <2>5. z % Boundary \in 0 .. Boundary - 1
    BY <2>4, Sizes
  <2> QED
    BY <2>5, <1>7 DEF z
<1> HIDE DEF int
<1>9. Sound(moved) /\ moved.state = r.state
  <2>1. /\ moved \in Runtime /\ moved.state = quiet.state
        /\ moved.running = quiet.running /\ moved.hw_ptr_base = base
    BY <1>2, <1>4, <1>7, <1>8, Sizes DEF Runtime
  <2> HIDE DEF moved
  <2> QED
    BY <2>1, <1>2, <1>6 DEF Sound
<1>10. Sound(still) /\ still.state = r.state
  <2>1. /\ still \in Runtime /\ still.state = seen.state
        /\ still.running = seen.running /\ still.hw_ptr_base = seen.hw_ptr_base
    BY <1>5, Sizes DEF Runtime
  <2> HIDE DEF still
  <2> QED
    BY <2>1, <1>5 DEF Sound
<1>11. u = IF (new - r.hw_ptr) % Boundary >= BufferSize + PeriodSize THEN seen
           ELSE IF new = r.hw_ptr THEN still
           ELSE snd_pcm_update_state(moved)
  BY DEF snd_pcm_update_hw_ptr0, seen, new, base, at, int, quiet
<1> HIDE DEF moved, still, u
<1>12. Sound(snd_pcm_update_state(moved)) /\ snd_pcm_update_state(moved).state \in {r.state, "XRUN"}
  BY <1>9, UpdateStateSound
<1>13. Sound(u) /\ u.state \in {r.state, "XRUN"}
  BY <1>5, <1>10, <1>11, <1>12
<1> QED
  BY <1>13 DEF u

(* An update outside the interrupt.                                        *)
LEMMA UpdateHwSound ==
  ASSUME NEW r, Sound(r)
  PROVE  /\ Sound(snd_pcm_update_hw_ptr(r))
         /\ snd_pcm_update_hw_ptr(r).state \in {r.state, "XRUN"}
BY UpdateSound DEF snd_pcm_update_hw_ptr

(* A start switches the engine on with the state.                          *)
LEMMA StartSound ==
  ASSUME NEW r, Sound(r)
  PROVE  Sound(snd_pcm_start(r))
<1> DEFINE u == [r EXCEPT !.state = "RUNNING", !.running = TRUE, !.elapsed = 0]
<1>1. r \in Runtime
  BY DEF Sound
<1>2. /\ u \in Runtime /\ u.state = "RUNNING" /\ u.running = TRUE
      /\ u.hw_ptr_base = r.hw_ptr_base
  BY <1>1, Sizes DEF Runtime, States
<1>3. Sound(u)
  BY <1>2 DEF Sound
<1>4. snd_pcm_start(r) \in {r, silence_init(u)}
  BY DEF snd_pcm_start
<1> HIDE DEF u
<1> QED
  BY <1>3, <1>4, SilenceInitSound

(* A pause switches the engine off with the state.                         *)
LEMMA PushSound ==
  ASSUME NEW r, Sound(r)
  PROVE  Sound(pause_push(r))
<1> DEFINE w == snd_pcm_update_hw_ptr(r)
           u == [w EXCEPT !.elapsed = Long, !.running = FALSE, !.state = "PAUSED"]
<1>1. pause_push(r) \in {r, u}
  BY DEF pause_push
<1>2. w \in Runtime /\ w.hw_ptr_base % BufferSize = 0
  BY UpdateHwSound DEF Sound
<1> HIDE DEF w
<1>3. /\ u \in Runtime /\ u.state = "PAUSED" /\ u.running = FALSE
      /\ u.hw_ptr_base = w.hw_ptr_base
  BY <1>2, Sizes DEF Runtime, States
<1> HIDE DEF u
<1> QED
  BY <1>1, <1>2, <1>3 DEF Sound

(* A refused pause leaves both.                                            *)
LEMMA RefusedSound ==
  ASSUME NEW r, Sound(r)
  PROVE  Sound(pause_refused(r))
<1> DEFINE w == snd_pcm_update_hw_ptr(r)
           u == [w EXCEPT !.elapsed = Long]
<1>1. pause_refused(r) \in {r, u}
  BY DEF pause_refused
<1>2. Sound(w) /\ w \in Runtime
  BY UpdateHwSound DEF Sound
<1> HIDE DEF w
<1>3. /\ u \in Runtime /\ u.state = w.state /\ u.running = w.running
      /\ u.hw_ptr_base = w.hw_ptr_base
  BY <1>2, Sizes DEF Runtime
<1> HIDE DEF u
<1> QED
  BY <1>1, <1>2, <1>3 DEF Sound

(* A release switches the engine on with the state.                        *)
LEMMA ReleaseSound ==
  ASSUME NEW r, Sound(r)
  PROVE  Sound(pause_release(r))
<1> DEFINE u == [r EXCEPT !.elapsed = Long, !.running = TRUE, !.state = "RUNNING"]
<1>1. pause_release(r) \in {r, u}
  BY DEF pause_release
<1>2. r \in Runtime /\ r.hw_ptr_base % BufferSize = 0
  BY DEF Sound
<1>3. /\ u \in Runtime /\ u.state = "RUNNING" /\ u.running = TRUE
      /\ u.hw_ptr_base = r.hw_ptr_base
  BY <1>2, Sizes DEF Runtime, States
<1> HIDE DEF u
<1> QED
  BY <1>1, <1>2, <1>3 DEF Sound

(* A drop of a paused stream does not leave the engine on.                 *)
LEMMA DropSound ==
  ASSUME NEW r, Sound(r)
  PROVE  Sound(snd_pcm_drop(r))
BY ReleaseSound, StopSound DEF snd_pcm_drop, States

(* What a discard changes.                                                 *)
LEMMA DiscardSound ==
  ASSUME NEW r, Sound(r)
  PROVE  /\ Sound(Discard(r)) /\ Discard(r).state = r.state
         /\ Discard(r).queued = 0 /\ Discard(r).starved = FALSE
         /\ Discard(r).hw_ptr = r.hw_ptr /\ Discard(r).hw_ptr_base = r.hw_ptr_base
<1> DEFINE A == [i \in Slots |-> IF r.dma_area[i] = "fresh" THEN "old" ELSE r.dma_area[i]]
           u == [r EXCEPT !.queued = 0, !.starved = FALSE, !.dma_area = A]
<1>1. r \in Runtime
  BY DEF Sound
<1>2. Discard(r) = u
  BY <1>1 DEF Discard, Runtime
<1>3. A \in [Slots -> Contents]
  BY <1>1 DEF Runtime, Contents
<1> HIDE DEF A
<1>4. /\ u \in Runtime /\ u.state = r.state /\ u.running = r.running
      /\ u.queued = 0 /\ u.starved = FALSE
      /\ u.hw_ptr = r.hw_ptr /\ u.hw_ptr_base = r.hw_ptr_base
  BY <1>1, <1>3 DEF Runtime
<1> HIDE DEF u
<1> QED
  BY <1>2, <1>4 DEF Sound

(* prepare of the stream that it found or, if that was paused, stopped.    *)
Rewound(s) ==
    [Discard(s) EXCEPT
        !.state = "PREPARED", !.pos = 0, !.lag = 0, !.hw_ptr = 0,
        !.hw_ptr_base = 0, !.hw_ptr_interrupt = 0, !.silence_filled = 0, !.appl_ptr = 0]

(* A rewound stream is prepared, and its engine off.                       *)
LEMMA RewoundSound ==
  ASSUME NEW s, Sound(s), s.state # "RUNNING"
  PROVE  Sound(Rewound(s)) /\ Rewound(s).state = "PREPARED"
<1> DEFINE d == Discard(s)
           u == [d EXCEPT
                   !.state = "PREPARED", !.pos = 0, !.lag = 0, !.hw_ptr = 0,
                   !.hw_ptr_base = 0, !.hw_ptr_interrupt = 0, !.silence_filled = 0,
                   !.appl_ptr = 0]
<1>1. Rewound(s) = u
  BY DEF Rewound
<1>2. Sound(d) /\ d.state # "RUNNING" /\ d \in Runtime
  BY DiscardSound DEF Sound
<1> HIDE DEF d
<1>3. /\ u \in Runtime /\ u.state = "PREPARED" /\ u.running = d.running /\ u.hw_ptr_base = 0
  BY <1>2, Sizes DEF Runtime, States
<1> HIDE DEF u
<1>4. 0 % BufferSize = 0
  BY Sizes, Itself
<1> QED
  BY <1>1, <1>2, <1>3, <1>4 DEF Sound

(* prepare refuses, or rewinds a stream that does not run.                 *)
LEMMA PrepareCases ==
  ASSUME NEW r, Sound(r)
  PROVE  \E s : /\ Sound(s) /\ s = (IF r.state = "PAUSED" THEN snd_pcm_drop(r) ELSE r)
                /\ \/ snd_pcm_prepare(r) = s /\ s.state \in {"OPEN", "RUNNING"}
                   \/ snd_pcm_prepare(r) = Rewound(s) /\ s.state \notin {"OPEN", "RUNNING"}
<1> DEFINE s == IF r.state = "PAUSED" THEN snd_pcm_drop(r) ELSE r
<1>1. Sound(s)
  BY DropSound
<1>2. snd_pcm_prepare(r) = IF s.state = "OPEN" \/ s.state = "RUNNING" THEN s ELSE Rewound(s)
  BY DEF snd_pcm_prepare, snd_pcm_drop, Rewound, snd_pcm_running
<1> HIDE DEF s
<1>3. \/ snd_pcm_prepare(r) = s /\ s.state \in {"OPEN", "RUNNING"}
      \/ snd_pcm_prepare(r) = Rewound(s) /\ s.state \notin {"OPEN", "RUNNING"}
  BY <1>2
<1> QED
  BY <1>1, <1>3 DEF s

(* A prepare keeps the runtime sound.                                      *)
LEMMA PrepareSound ==
  ASSUME NEW r, Sound(r)
  PROVE  Sound(snd_pcm_prepare(r))
BY PrepareCases, RewoundSound

(* The first section of a reset.                                           *)
LEMMA ResetSound ==
  ASSUME NEW r, Sound(r)
  PROVE  Sound(snd_pcm_lib_ioctl_reset(r))
<1> DEFINE s == snd_pcm_update_hw_ptr(r)
           h == IF snd_pcm_running(s) THEN s.hw_ptr % BufferSize ELSE 0
           u == [s EXCEPT !.hw_ptr = h]
<1>1. Sound(s) /\ s \in Runtime
  BY UpdateHwSound DEF Sound
<1>2. snd_pcm_lib_ioctl_reset(r) = u
  BY <1>1 DEF snd_pcm_lib_ioctl_reset, Runtime
<1> HIDE DEF s
<1>3. h \in 0 .. Boundary - 1
  <2>1. s.hw_ptr \in Int
    BY <1>1 DEF Runtime
  <2>2. s.hw_ptr % BufferSize \in 0 .. BufferSize - 1
    BY <2>1, Sizes
  <2> QED
    BY <2>2, Sizes
<1> HIDE DEF h
<1>4. /\ u \in Runtime /\ u.state = s.state /\ u.running = s.running
      /\ u.hw_ptr_base = s.hw_ptr_base
  BY <1>1, <1>3 DEF Runtime
<1> HIDE DEF u
<1> QED
  BY <1>1, <1>2, <1>4 DEF Sound

(* The second section of a reset.                                          *)
LEMMA DoResetSound ==
  ASSUME NEW r, Sound(r)
  PROVE  Sound(snd_pcm_do_reset(r))
<1> DEFINE h == r.hw_ptr - (r.hw_ptr % PeriodSize)
           u == [r EXCEPT !.hw_ptr_base = 0, !.silence_filled = 0, !.hw_ptr_interrupt = h]
<1>1. r \in Runtime /\ r.hw_ptr \in 0 .. Boundary - 1
  BY DEF Sound, Runtime
<1>2. h \in 0 .. Boundary - 1
  <2> DEFINE x == r.hw_ptr
             z == x % PeriodSize
  <2>1. x \in 0 .. Boundary - 1 /\ x \in Nat
    BY <1>1, Sizes
  <2> HIDE DEF x
  <2>2. z \in Nat /\ z <= x
    BY <2>1, Sizes
  <2>3. h = x - z
    BY DEF x
  <2> HIDE DEF z, h
  <2> QED
    BY <2>1, <2>2, <2>3, Sizes
<1> HIDE DEF h
<1>3. /\ u \in Runtime /\ u.state = r.state /\ u.running = r.running /\ u.hw_ptr_base = 0
  BY <1>1, <1>2, Sizes DEF Runtime
<1>4. snd_pcm_do_reset(r) = u
  BY DEF snd_pcm_do_reset, h
<1> HIDE DEF u
<1>5. 0 % BufferSize = 0
  BY Sizes, Itself
<1> QED
  BY <1>3, <1>4, <1>5 DEF Sound

(* The last section of a reset.                                            *)
LEMMA PostResetSound ==
  ASSUME NEW r, Sound(r)
  PROVE  Sound(snd_pcm_post_reset(r))
<1> DEFINE ahead == (r.pos - r.hw_ptr) % BufferSize
           d == Discard(r)
           p == (r.hw_ptr + ahead) % Boundary
           v == ahead > 0
           u == [d EXCEPT !.appl_ptr = r.hw_ptr, !.starved = v, !.pos = p]
<1>1. snd_pcm_post_reset(r) = silence_init(u)
  BY DEF snd_pcm_post_reset
<1>2. r.pos \in Int /\ r.hw_ptr \in 0 .. Boundary - 1 /\ r.hw_ptr \in Int
  BY DEF Sound, Runtime
<1>3. ahead \in Int
  BY <1>2, Sizes
<1>4. Sound(d) /\ d \in Runtime
  BY DiscardSound DEF Sound
<1> HIDE DEF ahead, d
<1>5. p \in 0 .. Boundary - 1 /\ v \in BOOLEAN
  <2> DEFINE x == r.hw_ptr + ahead
  <2>1. x \in Int
    BY <1>2, <1>3
  <2> HIDE DEF x
  <2>2. x % Boundary \in 0 .. Boundary - 1
    BY <2>1, Sizes
  <2> QED
    BY <2>2 DEF x
<1> HIDE DEF p, v
<1>6. /\ u \in Runtime /\ u.state = d.state /\ u.running = d.running
      /\ u.hw_ptr_base = d.hw_ptr_base
  BY <1>2, <1>4, <1>5 DEF Runtime
<1> HIDE DEF u
<1>7. Sound(u)
  BY <1>4, <1>6 DEF Sound
<1> QED
  BY <1>1, <1>7, SilenceInitSound

-----------------------------------------------------------------------------
(* The calls that TypeOK allows.                                           *)
Calls ==
    [pc : {"idle", "do_reset", "post_reset", "close_prepare",
           "prepare", "write", "copy", "commit"},
     size : Nat, avail : 0 .. Boundary, frames : 0 .. BufferSize]

(* A chunk is no larger than what is left to write and the room for it.    *)
ChunkFits(c) == c.pc \in {"copy", "commit"} => c.frames <= c.avail /\ c.frames <= c.size

(* The inductive invariant of the types and of DmaFollowsState.            *)
Base ==
    /\ Sound(rt) /\ irq \in {"none", "raised", "due"} /\ reused \in BOOLEAN
    /\ call \in Calls /\ ChunkFits(call)

(* No call in progress.                                                    *)
LEMMA IdleCall == Idle \in Calls /\ ChunkFits(Idle)
BY Sizes DEF Idle, Calls, ChunkFits

(* A chunk is within what is left, the room and the ring.                  *)
LEMMA ChunkSound ==
  ASSUME NEW r \in Runtime, NEW size \in Nat, NEW avail \in 0 .. Boundary
  PROVE  NextChunk(r, size, avail) \in Calls /\ ChunkFits(NextChunk(r, size, avail))
<1> DEFINE z == r.appl_ptr % BufferSize
           f == Least(Least(size, avail), BufferSize - z)
           u == [pc |-> "copy", size |-> size, avail |-> avail, frames |-> f]
<1>1. r.appl_ptr \in Int
  BY DEF Runtime
<1>2. z \in 0 .. BufferSize - 1
  BY <1>1, Sizes
<1> HIDE DEF z
<1>3. f \in 0 .. BufferSize /\ f <= avail /\ f <= size
  BY <1>2, Sizes DEF Least
<1>4. NextChunk(r, size, avail) \in {Idle, u}
  BY DEF NextChunk, z
<1> HIDE DEF f
<1>5. u \in Calls /\ ChunkFits(u)
  BY <1>3, Sizes DEF Calls, ChunkFits
<1> HIDE DEF u
<1> QED
  BY <1>4, <1>5, IdleCall

(* A runtime that was just opened.                                         *)
LEMMA FreshSound == Sound(Fresh0) /\ Fresh0.state = "OPEN" /\ Fresh0.queued = 0
<1> DEFINE A == [i \in Slots |-> "silence"]
<1>1. A \in [Slots -> Contents]
  BY DEF Contents
<1>2. Fresh0 = [state |-> "OPEN", appl_ptr |-> 0, hw_ptr |-> 0, hw_ptr_base |-> 0,
                hw_ptr_interrupt |-> 0, elapsed |-> 0, silence_filled |-> 0,
                dma_area |-> A,
                running |-> FALSE, pos |-> 0, lag |-> 0, queued |-> 0, starved |-> FALSE]
  BY DEF Fresh0
<1> HIDE DEF A
<1>3. Fresh0 \in Runtime /\ Fresh0.hw_ptr_base = 0 /\ Fresh0.state = "OPEN"
      /\ Fresh0.running = FALSE /\ Fresh0.queued = 0
  BY <1>1, <1>2, Sizes DEF Runtime, States
<1>4. 0 % BufferSize = 0
  BY Sizes, Itself
<1> QED
  BY <1>3, <1>4 DEF Sound

(* The invariant holds of a handle that was just opened.                   *)
LEMMA InitBase == Init => Base
BY FreshSound, IdleCall, StreamAssumption DEF Init, Base

(* The card plays a frame: what it does to the runtime.                    *)
Played(r) ==
    [r EXCEPT !.pos = (r.pos + 1) % Boundary, !.lag = r.lag + 1,
              !.elapsed = Least(r.elapsed + 1, Long),
              !.dma_area = [r.dma_area EXCEPT ![r.pos % BufferSize] =
                                IF @ = "fresh" THEN "old" ELSE @],
              !.queued = IF r.queued > 0 THEN r.queued - 1 ELSE 0,
              !.starved = r.starved \/ r.queued = 0]

(* A frame that is played leaves the state and the base.                   *)
LEMMA PlayedSound ==
  ASSUME NEW r, Sound(r), r.lag < MaxLag
  PROVE  Sound(Played(r)) /\ Played(r).state = r.state
<1> DEFINE p == (r.pos + 1) % Boundary
           z == r.pos % BufferSize
           l == r.lag + 1
           e == Least(r.elapsed + 1, Long)
           A == [r.dma_area EXCEPT ![z] = IF @ = "fresh" THEN "old" ELSE @]
           q == IF r.queued > 0 THEN r.queued - 1 ELSE 0
           v == r.starved \/ r.queued = 0
           u == [r EXCEPT !.pos = p, !.lag = l, !.elapsed = e, !.dma_area = A,
                          !.queued = q, !.starved = v]
<1>1. /\ r \in Runtime /\ r.pos \in Int /\ r.lag \in 0 .. MaxLag /\ r.elapsed \in 0 .. Long
      /\ r.dma_area \in [Slots -> Contents] /\ r.queued \in Nat /\ r.starved \in BOOLEAN
  BY DEF Sound, Runtime
<1>2. p \in 0 .. Boundary - 1
  <2> DEFINE x == r.pos + 1
  <2>1. x \in Int
    BY <1>1
  <2> HIDE DEF x
  <2>2. x % Boundary \in 0 .. Boundary - 1
    BY <2>1, Sizes
  <2> QED
    BY <2>2 DEF x
<1>3. z \in Slots
  BY <1>1, Sizes DEF Slots
<1>4. l \in 0 .. MaxLag /\ q \in Nat /\ v \in BOOLEAN
  BY <1>1, Sizes
<1>5. e \in 0 .. Long
  BY <1>1, Sizes DEF Least
<1> HIDE DEF z
<1>6. A \in [Slots -> Contents]
  BY <1>1, <1>3 DEF Contents
<1>7. Played(r) = u
  BY DEF Played, z
<1> HIDE DEF p, l, e, A, q, v
<1>8. /\ u \in Runtime /\ u.state = r.state /\ u.running = r.running
      /\ u.hw_ptr_base = r.hw_ptr_base
  BY <1>1, <1>2, <1>4, <1>5, <1>6 DEF Runtime
<1> HIDE DEF u
<1> QED
  BY <1>7, <1>8 DEF Sound

(* This is what the card does.                                             *)
LEMMA DmaFrameIs ==
  ASSUME Base, DmaFrame
  PROVE  rt' = Played(rt)
BY DEF Base, Sound, Runtime, DmaFrame, Played

(* Sections change the interrupt from raised to due only.                  *)
LEMMA SectionBase ==
  ASSUME Base, NEW pc, Section(pc)
  PROVE  irq' \in {"none", "raised", "due"} /\ reused' \in BOOLEAN
BY DEF Base, Section

(* A call of one section, of an operation that keeps the runtime sound.    *)
LEMMA CallBase ==
  ASSUME Base, Section("idle"), Sound(rt'), UNCHANGED call
  PROVE  Base'
BY SectionBase DEF Base

(* The clearing of the DMA area by HW_PARAMS.                              *)
Cleared(r, st) ==
    [r EXCEPT !.state = st, !.queued = 0, !.dma_area = [i \in Slots |-> "silence"]]

(* Clearing leaves a sound runtime without a queue.                        *)
LEMMA ClearedSound ==
  ASSUME NEW r, Sound(r), r.state # "RUNNING", NEW st \in {"SETUP", "OPEN"}
  PROVE  Sound(Cleared(r, st)) /\ Cleared(r, st).state = st /\ Cleared(r, st).queued = 0
<1> DEFINE A == [i \in Slots |-> "silence"]
           u == [r EXCEPT !.state = st, !.queued = 0, !.dma_area = A]
<1>1. A \in [Slots -> Contents] /\ Cleared(r, st) = u /\ r \in Runtime
  BY DEF Contents, Cleared, Sound
<1> HIDE DEF A
<1>2. /\ u \in Runtime /\ u.state = st /\ u.running = r.running /\ u.queued = 0
      /\ u.hw_ptr_base = r.hw_ptr_base
  BY <1>1 DEF Runtime, States
<1> HIDE DEF u
<1> QED
  BY <1>1, <1>2 DEF Sound

(* HW_PARAMS meets a running stream, or clears the area of another.        *)
LEMMA HwParamsCases ==
  ASSUME OSS32_WaveSetHwParams, Base
  PROVE  \E a : /\ a = (IF rt.state \in {"OPEN", "SETUP", "PREPARED"} THEN rt
                         ELSE snd_pcm_prepare(rt))
                /\ Sound(a)
                /\ \/ a.state = "RUNNING" /\ rt' = a
                   \/ /\ a.state # "RUNNING"
                      /\ \E st \in {"SETUP", "OPEN"} : rt' = Cleared(a, st)
<1> DEFINE a == IF rt.state \in {"OPEN", "SETUP", "PREPARED"} THEN rt
                ELSE snd_pcm_prepare(rt)
<1>1. Sound(a)
  BY PrepareSound DEF Base
<1>2. rt' \in IF snd_pcm_running(a) THEN {a}
              ELSE {[a EXCEPT !.state = st, !.queued = 0,
                        !.dma_area = [i \in Slots |-> "silence"]] : st \in {"SETUP", "OPEN"}}
  BY DEF OSS32_WaveSetHwParams
<1> HIDE DEF a
<1>3. \/ a.state = "RUNNING" /\ rt' = a
      \/ /\ a.state # "RUNNING"
         /\ \E st \in {"SETUP", "OPEN"} : rt' = Cleared(a, st)
  BY <1>2 DEF snd_pcm_running, Cleared
<1> QED
  BY <1>1, <1>3 DEF a

(* The copy of a chunk.                                                    *)
Copied(r, frames) ==
    [r EXCEPT !.dma_area = [i \in Slots |->
        IF (i - r.appl_ptr) % BufferSize < frames THEN "fresh" ELSE r.dma_area[i]]]

(* A copy changes the area only.                                           *)
LEMMA CopiedSound ==
  ASSUME NEW r, Sound(r), NEW frames
  PROVE  Sound(Copied(r, frames)) /\ Copied(r, frames).state = r.state
<1> DEFINE A == [i \in Slots |->
                   IF (i - r.appl_ptr) % BufferSize < frames THEN "fresh" ELSE r.dma_area[i]]
           u == [r EXCEPT !.dma_area = A]
<1>1. r \in Runtime /\ Copied(r, frames) = u
  BY DEF Sound, Copied
<1>2. A \in [Slots -> Contents]
  BY <1>1 DEF Contents, Runtime
<1> HIDE DEF A
<1>3. /\ u \in Runtime /\ u.state = r.state /\ u.running = r.running
      /\ u.hw_ptr_base = r.hw_ptr_base
  BY <1>1, <1>2 DEF Runtime
<1> HIDE DEF u
<1> QED
  BY <1>1, <1>3 DEF Sound

(* This is what a write copies.                                            *)
LEMMA CopyIs ==
  ASSUME Base, XferCopy
  PROVE  rt' = Copied(rt, call.frames)
BY DEF Base, Sound, Runtime, XferCopy, Copied

(* What a commit makes of the runtime.                                     *)
LEMMA CommittedSound ==
  ASSUME Base
  PROVE  /\ Sound(Committed) /\ Committed.state = rt.state
         /\ Committed.appl_ptr = (rt.appl_ptr + call.frames) % Boundary
         /\ Committed.queued = IF rt.starved THEN rt.queued ELSE rt.queued + call.frames
         /\ Committed.hw_ptr = rt.hw_ptr /\ Committed.hw_ptr_base = rt.hw_ptr_base
         /\ Committed.hw_ptr_interrupt = rt.hw_ptr_interrupt
         /\ Committed.elapsed = rt.elapsed
         /\ Committed.silence_filled = rt.silence_filled
         /\ Committed.dma_area = rt.dma_area /\ Committed.pos = rt.pos
         /\ Committed.lag = rt.lag /\ Committed.starved = rt.starved
<1> DEFINE a == (rt.appl_ptr + call.frames) % Boundary
           q == IF rt.starved THEN rt.queued ELSE rt.queued + call.frames
           u == [rt EXCEPT !.appl_ptr = a, !.queued = q]
<1>1. /\ rt \in Runtime /\ rt.appl_ptr \in Int /\ rt.queued \in Nat
      /\ call.frames \in Nat
  BY Sizes DEF Base, Sound, Runtime, Calls
<1>2. Committed = u
  BY <1>1 DEF Committed, Runtime
<1>3. q \in Nat
  BY <1>1
<1>4. a \in 0 .. Boundary - 1
  <2> DEFINE x == rt.appl_ptr + call.frames
  <2>1. x \in Int
    BY <1>1
  <2> HIDE DEF x
  <2>2. x % Boundary \in 0 .. Boundary - 1
    BY <2>1, Sizes
  <2> QED
    BY <2>2 DEF x
<1> HIDE DEF a, q
<1>5. /\ u \in Runtime /\ u.state = rt.state /\ u.running = rt.running
      /\ u.hw_ptr = rt.hw_ptr /\ u.hw_ptr_base = rt.hw_ptr_base
      /\ u.hw_ptr_interrupt = rt.hw_ptr_interrupt /\ u.elapsed = rt.elapsed
      /\ u.silence_filled = rt.silence_filled /\ u.dma_area = rt.dma_area
      /\ u.pos = rt.pos /\ u.lag = rt.lag /\ u.starved = rt.starved
      /\ u.appl_ptr = a /\ u.queued = q
  BY <1>1, <1>3, <1>4 DEF Runtime
<1> HIDE DEF u
<1>6. Sound(u)
  BY <1>5 DEF Sound, Base
<1> QED
  BY <1>2, <1>5, <1>6 DEF a, q

(* The end of a write that has nothing more to copy, or its next chunk.    *)
LEMMA CommitBase ==
  ASSUME Base, XferCommit
  PROVE  Base'
<1> DEFINE r == Committed
           s == IF snd_pcm_playback_hw_avail(r) >= 1 THEN snd_pcm_start(r) ELSE r
           left == call.size - call.frames
           rest == call.avail - call.frames
<1>1. Sound(r)
  BY CommittedSound
<1> HIDE DEF r
<1>2. Sound(s) /\ Sound(snd_pcm_update_state(s)) /\ s \in Runtime
  <2>1. Sound(s)
    BY <1>1, StartSound
  <2> HIDE DEF s
  <2> QED
    BY <2>1, UpdateStateSound DEF Sound
<1>3. left \in Nat /\ rest \in 0 .. Boundary
  BY Sizes DEF Base, Calls, ChunkFits, XferCommit, Section
<1>4. \/ rt' = rt /\ call' = Idle
      \/ rt' = snd_pcm_update_state(s) /\ call' = Idle
      \/ rt' = s /\ call' = NextChunk(s, left, rest)
  BY DEF XferCommit, Return, r
<1> HIDE DEF s, left, rest
<1>5. Sound(rt') /\ call' \in Calls /\ ChunkFits(call')
  BY <1>2, <1>3, <1>4, IdleCall, ChunkSound DEF Base
<1>6. Section("commit")
  BY DEF XferCommit
<1> QED
  BY <1>5, <1>6, SectionBase DEF Base

(* Moving on to another step of a call.                                    *)
LEMMA GotoCall ==
  ASSUME call \in Calls, NEW pc \in {"do_reset", "post_reset", "close_prepare", "write"},
         Goto(pc)
  PROVE  call' \in Calls /\ ChunkFits(call')
BY DEF Calls, Goto, ChunkFits

(* OSS32_WaveAddBuffer keeps the invariant.                                *)
LEMMA AddBufferBase ==
  ASSUME Base, NEW n \in ReqSizes, OSS32_WaveAddBuffer(n)
  PROVE  Base'
<1> DEFINE r == snd_pcm_update_hw_ptr(rt)
           size == IF rt.state = "OPEN" THEN 0 ELSE Least(n, snd_pcm_playback_avail(r))
           pc == IF rt.state = "XRUN" THEN "prepare" ELSE "write"
           c == [Idle EXCEPT !.size = size, !.pc = pc]
<1>1. Sound(r) /\ r \in Runtime
  BY UpdateHwSound DEF Base, Sound
<1>2. Section("idle") /\ rt' = r /\ call' \in {Idle, c}
  BY DEF OSS32_WaveAddBuffer
<1> HIDE DEF r
<1>3. size \in Nat
  BY <1>1, AvailType, StreamAssumption DEF Least
<1>4. pc \in {"prepare", "write"}
  OBVIOUS
<1> HIDE DEF size, pc
<1>5. c \in Calls /\ c.pc = pc
  <2>1. Idle \in Calls
    BY IdleCall
  <2> QED
    BY <1>3, <1>4, <2>1 DEF Calls
<1> HIDE DEF c
<1>6. call' \in Calls /\ ChunkFits(call')
  BY <1>2, <1>4, <1>5, IdleCall DEF ChunkFits
<1> QED
  BY <1>1, <1>2, <1>6, SectionBase DEF Base

(* So does the beginning of its write.                                     *)
LEMMA BeginBase ==
  ASSUME Base, XferBegin
  PROVE  Base'
<1> DEFINE r == snd_pcm_update_hw_ptr(rt)
           a == snd_pcm_playback_avail(r)
<1>1. Sound(r) /\ r \in Runtime
  BY UpdateHwSound DEF Base, Sound
<1>2. /\ Section("write")
      /\ \/ rt' = r /\ call' = NextChunk(r, call.size, a)
         \/ rt' = rt /\ call' = Idle
  BY DEF XferBegin, Return
<1> HIDE DEF r
<1>3. a \in 0 .. Boundary /\ call.size \in Nat
  BY <1>1, AvailType, Sizes DEF Base, Calls
<1> HIDE DEF a
<1>4. Sound(rt') /\ call' \in Calls /\ ChunkFits(call')
  BY <1>1, <1>2, <1>3, ChunkSound, IdleCall DEF Base
<1> QED
  BY <1>2, <1>4, SectionBase DEF Base

(* Every step keeps the types and the engine with the state.               *)
LEMMA StepBase == Base /\ [Next]_vars => Base'
<1> SUFFICES ASSUME Base, [Next]_vars PROVE Base'
  OBVIOUS
<1>0. Sound(rt) /\ call \in Calls /\ ChunkFits(call) /\ irq \in {"none", "raised", "due"}
      /\ reused \in BOOLEAN
  BY DEF Base
<1>1. CASE DmaFrame
  <2>1. rt' = Played(rt) /\ rt.lag < MaxLag
    BY <1>1, DmaFrameIs DEF DmaFrame
  <2>2. Sound(rt')
    BY <1>0, <2>1, PlayedSound
  <2> QED
    BY <1>0, <1>1, <2>2 DEF Base, DmaFrame
<1>2. CASE snd_pcm_period_elapsed
  <2>1. Sound(rt')
    BY <1>0, <1>2, UpdateSound DEF snd_pcm_period_elapsed
  <2> QED
    BY <1>0, <1>2, <2>1 DEF Base, snd_pcm_period_elapsed
<1>3. CASE snd_pcm_stop_xrun
  <2>1. Sound(rt')
    BY <1>0, <1>3, StopSound DEF snd_pcm_stop_xrun, States
  <2> QED
    BY <1>0, <1>3, <2>1 DEF Base, snd_pcm_stop_xrun
<1>4. CASE OSS32_WavePrepare
  BY <1>0, <1>4, CallBase, PrepareSound DEF OSS32_WavePrepare, Call
<1>5. CASE OSS32_WaveStart
  BY <1>0, <1>5, CallBase, StartSound DEF OSS32_WaveStart, Call
<1>6. CASE OSS32_WaveStop
  BY <1>0, <1>6, CallBase, DropSound DEF OSS32_WaveStop, Call
<1>7. CASE OSS32_WavePause
  BY <1>0, <1>7, CallBase, ReleaseSound DEF OSS32_WavePause, Call
<1>8. CASE OSS32_WaveResume
  BY <1>0, <1>8, CallBase, PushSound, RefusedSound DEF OSS32_WaveResume, Call
<1>9. CASE OSS32_WaveGetStatus
  BY <1>0, <1>9, CallBase, UpdateHwSound DEF OSS32_WaveGetStatus, Call
<1>10. CASE OSS32_WaveSetHwParams
  <2>1. Sound(rt')
    BY <1>10, HwParamsCases, ClearedSound
  <2> QED
    BY <1>10, <2>1, CallBase DEF OSS32_WaveSetHwParams
<1>11. CASE snd_pcm_release
  BY <1>11, CallBase, FreshSound DEF snd_pcm_release
<1>12. CASE OSS32_WaveClose
  <2>1. Sound(rt') /\ call' \in Calls /\ ChunkFits(call')
    BY <1>0, <1>12, ResetSound, GotoCall DEF OSS32_WaveClose
  <2> QED
    BY <1>12, <2>1, SectionBase DEF Base, OSS32_WaveClose
<1>13. ASSUME NEW n \in ReqSizes, OSS32_WaveAddBuffer(n) PROVE Base'
  BY <1>13, AddBufferBase
<1>14. CASE CloseDoReset
  <2>1. Sound(rt') /\ call' \in Calls /\ ChunkFits(call')
    BY <1>0, <1>14, DoResetSound, GotoCall DEF CloseDoReset
  <2> QED
    BY <1>14, <2>1, SectionBase DEF Base, CloseDoReset
<1>15. CASE ClosePostReset
  <2>1. Sound(rt') /\ call' \in Calls /\ ChunkFits(call')
    BY <1>0, <1>15, PostResetSound, GotoCall DEF ClosePostReset
  <2> QED
    BY <1>15, <2>1, SectionBase DEF Base, ClosePostReset
<1>16. CASE ClosePrepare
  <2>1. Sound(rt') /\ call' \in Calls /\ ChunkFits(call')
    BY <1>0, <1>16, PrepareSound, IdleCall DEF ClosePrepare, Return
  <2> QED
    BY <1>16, <2>1, SectionBase DEF Base, ClosePrepare
<1>17. CASE AddBufferPrepare
  <2>1. Sound(rt') /\ call' \in Calls /\ ChunkFits(call')
    BY <1>0, <1>17, PrepareSound, GotoCall DEF AddBufferPrepare
  <2> QED
    BY <1>17, <2>1, SectionBase DEF Base, AddBufferPrepare
<1>18. CASE XferBegin
  BY <1>18, BeginBase
<1>19. CASE XferCopy
  <2>1. Sound(rt')
    BY <1>0, <1>19, CopyIs, CopiedSound
  <2>2. call' = [call EXCEPT !.pc = "commit"] /\ call.pc = "copy" /\ Section("copy")
    BY <1>19 DEF XferCopy, Goto, Section
  <2>3. call' \in Calls /\ ChunkFits(call')
    BY <1>0, <2>2 DEF Calls, ChunkFits
  <2> QED
    BY <2>1, <2>2, <2>3, SectionBase DEF Base
<1>20. CASE XferCommit
  BY <1>20, CommitBase
<1>21. CASE XferStartFails
  <2>1. Sound(rt') /\ call' \in Calls /\ ChunkFits(call')
    BY <1>21, CommittedSound, IdleCall DEF XferStartFails, Return
  <2> QED
    BY <1>21, <2>1, SectionBase DEF Base, XferStartFails
<1>22. CASE UNCHANGED vars
  BY <1>0, <1>22 DEF vars, Base
<1> QED
  BY <1>1, <1>2, <1>3, <1>4, <1>5, <1>6, <1>7, <1>8, <1>9, <1>10, <1>11, <1>12, <1>13,
     <1>14, <1>15, <1>16, <1>17, <1>18, <1>19, <1>20, <1>21, <1>22 DEF Next, Control, CallSection

(* The types and the engine, in every state.                               *)
LEMMA BaseInvariant == Spec => []Base
BY InitBase, StepBase, PTL DEF Spec

(* The pointers stay below the boundary and the base of the buffer at a    *)
(* multiple of its size, of every handle, whatever the card and the clock  *)
(* say, also between the sections of a RESET.                              *)
THEOREM PcmTypes == Spec => []TypeOK
<1>1. Base => TypeOK
  BY DEF Base, Sound, Runtime, States, Calls, TypeOK
<1> QED
  BY <1>1, BaseInvariant, PTL

(* The engine plays exactly while the stream is RUNNING.                   *)
THEOREM PcmDmaFollowsState == Spec => []DmaFollowsState
<1>1. Base => DmaFollowsState
  BY DEF Base, Sound, DmaFollowsState, snd_pcm_running
<1> QED
  BY <1>1, BaseInvariant, PTL

-----------------------------------------------------------------------------
(***************************************************************************)
(* Positions in the ring and before the boundary.                          *)
(***************************************************************************)
LEMMA SmallMod ==
  ASSUME NEW n \in Nat, n > 0, NEW x \in 0 .. n - 1
  PROVE  x % n = x
OBVIOUS

(* A remainder may be taken early.                                         *)
LEMMA ModPlus ==
  ASSUME NEW n \in Nat, n > 0, NEW x \in Int, NEW y \in Int
  PROVE  ((x % n) + y) % n = (x + y) % n /\ ((x % n) - y) % n = (x - y) % n
<1> DEFINE z == x % n
           q == x \div n
           d == z + y
           e == z - y
<1>1. z \in Int /\ q \in Int /\ x = n * q + z
  BY Division
<1> HIDE DEF z, q
<1>2. d \in Int /\ e \in Int /\ x + y = d + q * n /\ x - y = e + q * n
  BY <1>1
<1> HIDE DEF d, e
<1>3. (d + q * n) % n = d % n /\ (e + q * n) % n = e % n
  BY <1>1, <1>2, DropMultiple
<1>4. (x + y) % n = d % n /\ (x - y) % n = e % n
  BY <1>2, <1>3
<1> QED
  BY <1>4 DEF d, e, z

(* What % computes when its operand wraps once at most.                    *)
LEMMA WrapOnce ==
  ASSUME NEW n \in Nat, n > 0, NEW x \in Nat, x < 2 * n
  PROVE  x % n = IF x < n THEN x ELSE x - n
<1>1. n % n = 0 /\ 0 % n = 0
  BY Itself
<1>2. ASSUME x < n PROVE x % n = x
  BY <1>2, SmallMod
<1>3. ASSUME n <= x PROVE x % n = x - n
  <2> DEFINE b == n
  <2>1. b \in Int /\ b % n = 0 /\ b <= x /\ x < b + n /\ x \in Int
    BY <1>1, <1>3
  <2> HIDE DEF b
  <2>2. x % n = x - b
    BY <2>1, AfterMultiple
  <2> QED
    BY <2>2 DEF b
<1> QED
  BY <1>2, <1>3

(* p is l frames ahead of h; the place in the ring of the frame k behind   *)
(* p; and how far the place i is ahead of h in the ring.                   *)
Ahead(h, l, p) == p = (h + l) % Boundary
Slot(p, k) == (p + k) % BufferSize
Offset(i, h) == (i - h) % BufferSize

(* The frame k behind p, seen from a pointer h that is less than a buffer  *)
(* behind that frame.                                                      *)
LEMMA RingAhead ==
  ASSUME NEW h \in Int, NEW l \in Nat, NEW k \in Nat, l + k < BufferSize,
         NEW p, Ahead(h, l, p)
  PROVE  Slot(p, k) \in Slots /\ Offset(Slot(p, k), h) = l + k
<1> DEFINE B == BufferSize
           s == h + l
           w == p + k
           v == s + k
           n == l + k
<1>1. /\ B \in Nat /\ B > 0 /\ Boundary \in Nat /\ Boundary > 0 /\ Boundary % B = 0
  BY Sizes
<1>2. s \in Int /\ v \in Int /\ p = s % Boundary /\ k \in Int
  BY DEF Ahead
<1>11. n \in 0 .. B - 1
  BY <1>1
<1> HIDE DEF s, B
<1>3. p \in Int
  BY <1>1, <1>2
<1>4. w \in Int
  BY <1>3
<1>5. p % B = s % B
  <2>1. (s % Boundary) % B = s % B
    BY <1>1, <1>2, TwoModuli
  <2> QED
    BY <2>1, <1>2
<1>6. ((p % B) + k) % B = (p + k) % B /\ ((s % B) + k) % B = (s + k) % B
  BY <1>1, <1>2, <1>3, ModPlus
<1>7. w % B = v % B
  BY <1>5, <1>6
<1> HIDE DEF w, v
<1>8. ((w % B) - h) % B = (w - h) % B /\ ((v % B) - h) % B = (v - h) % B
  BY <1>1, <1>2, <1>4, ModPlus
<1>9. v - h = n
  BY DEF v, s
<1>10. w % B \in 0 .. B - 1
  BY <1>1, <1>4
<1> HIDE DEF n
<1>12. n % B = n
  BY <1>1, <1>11, SmallMod
<1>13. ((w % B) - h) % B = n
  BY <1>7, <1>8, <1>9, <1>12
<1> QED
  BY <1>10, <1>13 DEF B, w, n, Slots, Slot, Offset

(* Pointers that add up.                                                   *)
LEMMA AheadPlus ==
  ASSUME NEW h \in Int, NEW l \in Int, NEW p, Ahead(h, l, p), NEW k \in Int, NEW q
  PROVE  Ahead(p, k, q) <=> Ahead(h, l + k, q)
<1> DEFINE s == h + l
<1>1. s \in Int /\ p = s % Boundary /\ Boundary \in Nat /\ Boundary > 0
  BY Sizes DEF Ahead
<1> HIDE DEF s
<1>2. ((s % Boundary) + k) % Boundary = (s + k) % Boundary
  BY <1>1, ModPlus
<1>3. s + k = h + (l + k)
  BY DEF s
<1> QED
  BY <1>1, <1>2, <1>3 DEF Ahead

(* The frame k + m behind p is the frame m behind the one that is k ahead. *)
LEMMA SlotPlus ==
  ASSUME NEW p \in Int, NEW k \in Int, NEW q, Ahead(p, k, q), NEW m \in Int
  PROVE  Slot(q, m) = Slot(p, k + m)
<1> DEFINE s == p + k
           v == s + m
<1>1. s \in Int /\ q = s % Boundary /\ Boundary \in Nat /\ Boundary > 0
      /\ BufferSize \in Nat /\ BufferSize > 0 /\ Boundary % BufferSize = 0 /\ v \in Int
  BY Sizes DEF Ahead
<1> HIDE DEF s
<1>2. (s % Boundary) % BufferSize = s % BufferSize
  BY <1>1, TwoModuli
<1>3. q \in Int
  BY <1>1
<1>4. ((q % BufferSize) + m) % BufferSize = (q + m) % BufferSize
      /\ ((s % BufferSize) + m) % BufferSize = (s + m) % BufferSize
  BY <1>1, <1>3, ModPlus
<1>5. s + m = p + (k + m)
  BY DEF s
<1> QED
  BY <1>1, <1>2, <1>4, <1>5 DEF Slot

(* A pointer that is one buffer ahead at most: where it is.                *)
LEMMA AheadIs ==
  ASSUME NEW h \in 0 .. Boundary - 1, NEW l \in 0 .. BufferSize, NEW p
  PROVE  Ahead(h, l, p) <=> (p = IF h + l < Boundary THEN h + l ELSE h + l - Boundary)
<1> DEFINE x == h + l
<1>1. x \in Nat /\ x < 2 * Boundary /\ Boundary \in Nat /\ Boundary > 0
  BY Sizes
<1> HIDE DEF x
<1>2. x % Boundary = IF x < Boundary THEN x ELSE x - Boundary
  BY <1>1, WrapOnce
<1>3. Ahead(h, l, p) <=> (p = x % Boundary)
  BY DEF x, Ahead
<1>4. Ahead(h, l, p) <=> (p = IF x < Boundary THEN x ELSE x - Boundary)
  BY <1>2, <1>3
<1> QED
  BY <1>1, <1>4, Sizes DEF x

(* A pointer that is not ahead is the same.                                *)
LEMMA AheadZero ==
  ASSUME NEW h \in 0 .. Boundary - 1, NEW p
  PROVE  Ahead(h, 0, p) <=> (p = h)
<1>1. Boundary \in Nat /\ Boundary > 0 /\ h \in Int
  BY Sizes
<1>2. h % Boundary = h /\ h + 0 = h
  BY <1>1, SmallMod
<1> QED
  BY <1>2 DEF Ahead

-----------------------------------------------------------------------------
(***************************************************************************)
(* The pointers of a handle that is not reused.                            *)
(***************************************************************************)
(* When the jiffies cannot mislead the interrupt: the card cannot pause    *)
(* and is served within half a buffer, the time after which                *)
(* snd_pcm_update_hw_ptr0 takes an interrupt for late; or the pointers     *)
(* stay below the boundary, where hw_ptr_interrupt tells the two cases     *)
(* apart whatever the jiffies say.                                         *)
Timely ==
    \/ MaxPos < Boundary
    \/ ~PauseInfo /\ MaxLag <= BufferSize \div 2 + 1

(* A stream that was started and not stopped: hw_ptr is lag frames behind  *)
(* the card, hw_ptr_base is the start of its buffer, and old frames are    *)
(* left only where the next update will put silence.                       *)
Tracked(r) ==
    /\ Ahead(r.hw_ptr, r.lag, r.pos)
    /\ r.hw_ptr_base <= r.hw_ptr /\ r.hw_ptr < r.hw_ptr_base + BufferSize
    /\ r.silence_filled = BufferSize
    /\ \A i \in Slots : r.dma_area[i] = "old" => Offset(i, r.hw_ptr) < r.lag

(* Below the boundary: hw_ptr_interrupt is the start of a period that the  *)
(* card has left when its interrupt is pending.                            *)
Periods(r) ==
    /\ r.hw_ptr + r.lag = r.pos
    /\ r.hw_ptr_interrupt % PeriodSize = 0 /\ r.hw_ptr_interrupt <= r.hw_ptr

OnTime(r, i) ==
    IF MaxPos < Boundary
    THEN /\ r.state \in {"RUNNING", "PAUSED"} => Periods(r)
         /\ r.state = "RUNNING" /\ i # "none" => r.hw_ptr_interrupt + PeriodSize <= r.pos
         /\ i = "raised" => r.state \in {"RUNNING", "XRUN"}
    ELSE r.state = "RUNNING" => r.elapsed <= r.lag

(* hw_ptr_base moves to the buffer that the card is in, and the position   *)
(* in it is the number of frames that the card played.                     *)
LEMMA BaseFollows ==
  ASSUME NEW b \in 0 .. Boundary - BufferSize, b % BufferSize = 0,
         NEW h \in 0 .. Boundary - 1, b <= h, h < b + BufferSize,
         NEW l \in 0 .. BufferSize - 1, NEW p, Ahead(h, l, p),
         NEW late, late => b + (p % BufferSize) # p
  PROVE  LET w == late \/ b + (p % BufferSize) < h
             base == IF w THEN NextBase(b) ELSE b
         IN  base + (p % BufferSize) = p /\ base <= p /\ p < base + BufferSize
<1> DEFINE B == BufferSize
           at == p % B
<1>1. /\ B \in Nat /\ B > 0 /\ Boundary \in Nat /\ 2 * B <= Boundary
      /\ b \in Int /\ h \in Nat /\ l \in Nat /\ l < B
  BY Sizes
<1>2. p = IF h + l < Boundary THEN h + l ELSE h + l - Boundary
  <2>1. l \in 0 .. BufferSize
    BY <1>1
  <2> QED
    BY <2>1, AheadIs
<1>3. /\ NextBase(b) \in 0 .. Boundary - B /\ NextBase(b) % B = 0
      /\ NextBase(b) = IF b = Boundary - B THEN 0 ELSE b + B
  BY NextBaseSound
<1>4. p \in Int
  BY <1>1, <1>2
<1>5. at \in 0 .. B - 1
  BY <1>1, <1>4
<1> DEFINE nb == NextBase(b)
<1>6. nb \in Int /\ nb % B = 0
  BY <1>1, <1>3
<1>7. CASE h + l < b + B
  <2>1. p = h + l /\ b <= p /\ p < b + B
    BY <1>1, <1>2, <1>7
  <2> HIDE DEF B
  <2>2. p % B = p - b
    BY <1>1, <1>4, <2>1, AfterMultiple DEF B
  <2>3. b + at = p /\ ~(b + at < h) /\ ~late
    BY <1>1, <1>4, <2>1, <2>2 DEF B
  <2> HIDE DEF at
  <2> QED
    BY <1>1, <1>4, <2>1, <2>3 DEF B, at
<1>8. CASE h + l >= b + B
  <2>1. nb <= p /\ p < nb + B /\ p - nb = h + l - (b + B)
    BY <1>1, <1>2, <1>3, <1>8
  <2> HIDE DEF B, nb
  <2>2. p % B = p - nb
    BY <1>1, <1>4, <1>6, <2>1, AfterMultiple
  <2>3. nb + at = p /\ b + at < h
    BY <1>1, <1>4, <1>6, <2>1, <2>2
  <2> HIDE DEF at
  <2> QED
    BY <1>1, <1>4, <2>1, <2>3 DEF B, at, nb
<1> QED
  BY <1>1, <1>7, <1>8

(* The jiffies make the interrupt add a buffer only if one was played.     *)
LEMMA NotMisled ==
  ASSUME Timely, NEW r, Sound(r), r.state = "RUNNING", NEW i, OnTime(r, i), i # "none",
         NEW n \in Int,
         r.hw_ptr_interrupt + PeriodSize > n, r.elapsed > BufferSize \div 2 + 1
  PROVE  n # r.pos
<1>1. /\ r.elapsed \in Nat /\ r.lag \in Nat /\ r.lag <= MaxLag
      /\ r.hw_ptr_interrupt \in Int /\ r.pos \in Int
  BY Sizes DEF Sound, Runtime
<1>2. CASE MaxPos < Boundary
  BY <1>1, <1>2, Sizes DEF OnTime
<1>3. CASE ~(MaxPos < Boundary)
  <2> DEFINE half == BufferSize \div 2 + 1
  <2>1. half \in Int /\ MaxLag <= half /\ MaxLag \in Int /\ r.elapsed > half
    BY <1>3, Sizes DEF Timely
  <2> HIDE DEF half
  <2>2. r.elapsed <= r.lag
    BY <1>3 DEF OnTime
  <2> QED
    BY <1>1, <2>1, <2>2
<1> QED
  BY <1>2, <1>3

(* The fields that an update of the pointer leaves alone.                  *)
SameQueue(r, u) ==
    u.appl_ptr = r.appl_ptr /\ u.pos = r.pos /\ u.queued = r.queued /\ u.starved = r.starved

(* A stop changes the state and nothing else that counts.                  *)
SamePointers(r, u) ==
    /\ SameQueue(r, u) /\ u.hw_ptr = r.hw_ptr /\ u.hw_ptr_base = r.hw_ptr_base
    /\ u.hw_ptr_interrupt = r.hw_ptr_interrupt /\ u.lag = r.lag
    /\ u.silence_filled = r.silence_filled /\ u.dma_area = r.dma_area

(* This is all that snd_pcm_stop changes.                                  *)
LEMMA StopKeeps ==
  ASSUME NEW r \in Runtime, NEW st
  PROVE  /\ SamePointers(r, snd_pcm_stop(r, st))
         /\ snd_pcm_stop(r, st).elapsed = r.elapsed
         /\ snd_pcm_stop(r, st).state = IF r.state = "OPEN" THEN "OPEN" ELSE st
BY DEF Runtime, snd_pcm_stop, SamePointers, SameQueue

(* This is all that snd_pcm_update_state changes.                          *)
LEMMA UpdateStateKeeps ==
  ASSUME NEW r \in Runtime
  PROVE  /\ SamePointers(r, snd_pcm_update_state(r))
         /\ snd_pcm_update_state(r).elapsed = r.elapsed
<1>1. SamePointers(r, r)
  BY DEF SamePointers, SameQueue
<1> QED
  BY <1>1, StopKeeps DEF snd_pcm_update_state

(* The area after the frames since the last update were silenced.          *)
Silenced(r) ==
    [k \in Slots |-> IF Offset(k, r.hw_ptr) < r.lag THEN "silence" ELSE r.dma_area[k]]

(* The silence of an update that follows the card: the frames played since *)
(* the last one.                                                           *)
LEMMA SilenceIs ==
  ASSUME NEW r, Sound(r), Tracked(r), NEW n, n = r.pos,
         NEW s, s = [r EXCEPT !.lag = 0]
  PROVE  /\ snd_pcm_playback_silence(s, n) =
                [s EXCEPT !.dma_area = Silenced(r), !.silence_filled = BufferSize]
         /\ (n - r.hw_ptr) % Boundary = r.lag
<1>1. /\ r \in Runtime /\ r.lag \in Nat /\ r.lag < BufferSize /\ r.hw_ptr \in 0 .. Boundary - 1
      /\ r.silence_filled = BufferSize
  BY Sizes DEF Sound, Runtime, Tracked
<1>2. (n - r.hw_ptr) % Boundary = r.lag
  <2> DEFINE h == r.hw_ptr
             l == r.lag
             x == h + l
  <2>1. h \in Int /\ l \in Int /\ x \in Int /\ Boundary \in Nat /\ Boundary > 0
        /\ l \in 0 .. Boundary - 1 /\ n = x % Boundary /\ x - h = l
    BY <1>1, Sizes DEF Tracked, Ahead
  <2> HIDE DEF h, l, x
  <2>2. ((x % Boundary) - h) % Boundary = (x - h) % Boundary
    BY <2>1, ModPlus
  <2>3. l % Boundary = l
    BY <2>1, SmallMod
  <2>4. (n - h) % Boundary = l
    BY <2>1, <2>2, <2>3
  <2> QED
    BY <2>4 DEF h, l
<1>3. /\ s.silence_filled = BufferSize /\ s.hw_ptr = r.hw_ptr /\ s.dma_area = r.dma_area
      /\ s \in Runtime
  BY <1>1, Sizes DEF Runtime
<1> DEFINE filled == s.silence_filled - ((n - s.hw_ptr) % Boundary)
<1>4. filled = BufferSize - r.lag
  BY <1>2, <1>3
<1>5. ~(filled < 0) /\ BufferSize - filled = r.lag
  BY <1>1, <1>4, Sizes
<1>6. snd_pcm_playback_silence(s, n) = fill_silence_frames(s, r.hw_ptr, r.lag)
  <2>1. snd_pcm_playback_silence(s, n) = IF filled < 0 THEN fill_silence_frames(s, n, BufferSize)
                             ELSE fill_silence_frames(s, s.hw_ptr, BufferSize - filled)
    BY DEF snd_pcm_playback_silence
  <2> HIDE DEF filled
  <2> QED
    BY <2>1, <1>3, <1>5
<1>7. fill_silence_frames(s, r.hw_ptr, r.lag) =
        [s EXCEPT !.dma_area = Silenced(r), !.silence_filled = BufferSize]
  BY <1>3 DEF fill_silence_frames, Offset, Runtime, Silenced
<1> QED
  BY <1>2, <1>6, <1>7

(* Where the interrupt moves hw_ptr_interrupt.                             *)
NextPeriod(r) ==
    LET since == (r.pos - r.hw_ptr_interrupt) % Boundary
    IN  (r.hw_ptr_interrupt + since - (since % PeriodSize)) % Boundary

(* What an update does to the runtime when the pointer follows the card.   *)
Updated(r, u) ==
    /\ SameQueue(r, u) /\ u.hw_ptr = r.pos /\ u.lag = 0
    /\ u.hw_ptr_base <= r.pos /\ r.pos < u.hw_ptr_base + BufferSize
    /\ u.silence_filled = BufferSize /\ u.dma_area = Silenced(r)
    /\ u.hw_ptr_interrupt \in {r.hw_ptr_interrupt, NextPeriod(r)}

(* snd_pcm_update_hw_ptr0 finds the number of frames that the card played. *)
LEMMA UpdateExact ==
  ASSUME Timely, NEW r, Sound(r), r.state = "RUNNING", Tracked(r),
         NEW i, OnTime(r, i), NEW in \in BOOLEAN, in => i # "none"
  PROVE  LET u == snd_pcm_update_hw_ptr0(r, in)
         IN  /\ Updated(r, u) /\ u.elapsed = 0
             /\ ~in => u.hw_ptr_interrupt = r.hw_ptr_interrupt
<1> DEFINE at == r.pos % BufferSize
           late == /\ in
                   /\ r.hw_ptr_interrupt + PeriodSize > r.hw_ptr_base + at
                   /\ r.elapsed > BufferSize \div 2 + 1
           wrapped == late \/ r.hw_ptr_base + at < r.hw_ptr
           base == IF wrapped THEN NextBase(r.hw_ptr_base) ELSE r.hw_ptr_base
           new == base + at
           seen == [r EXCEPT !.lag = 0]
           since == (new - r.hw_ptr_interrupt) % Boundary
           quiet == snd_pcm_playback_silence(seen, new)
           int == IF in THEN (quiet.hw_ptr_interrupt + since - (since % PeriodSize)) % Boundary
                  ELSE quiet.hw_ptr_interrupt
           moved == [quiet EXCEPT !.hw_ptr = new, !.hw_ptr_base = base, !.elapsed = 0,
                                  !.hw_ptr_interrupt = int]
           still == [seen EXCEPT !.elapsed = 0]
           u == snd_pcm_update_hw_ptr0(r, in)
<1>1. /\ r \in Runtime /\ r.hw_ptr_base \in 0 .. Boundary - BufferSize
      /\ r.hw_ptr_base % BufferSize = 0 /\ r.pos \in 0 .. Boundary - 1
      /\ r.hw_ptr \in 0 .. Boundary - 1 /\ r.lag \in 0 .. BufferSize - 1
      /\ r.hw_ptr_interrupt \in 0 .. Boundary - 1
  BY Sizes DEF Sound, Runtime
<1>2. at \in 0 .. BufferSize - 1
  BY <1>1, Sizes
<1>3. r.hw_ptr_base + at \in Int
  BY <1>1, <1>2, Sizes
<1>4. late => r.hw_ptr_base + at # r.pos
  <2> HIDE DEF at
  <2> QED
    BY <1>3, NotMisled
<1>5. /\ Ahead(r.hw_ptr, r.lag, r.pos) /\ r.hw_ptr_base <= r.hw_ptr
      /\ r.hw_ptr < r.hw_ptr_base + BufferSize /\ r.silence_filled = BufferSize
  BY DEF Tracked
<1>6. new = r.pos /\ base <= r.pos /\ r.pos < base + BufferSize
  <2> HIDE DEF late
  <2> QED
    BY <1>1, <1>4, <1>5, BaseFollows
<1>7. base \in 0 .. Boundary - BufferSize
  BY <1>1, NextBaseSound
<1> HIDE DEF late, wrapped, base, new, at
<1>8. /\ quiet = [seen EXCEPT !.dma_area = Silenced(r), !.silence_filled = BufferSize]
      /\ (new - r.hw_ptr) % Boundary = r.lag
  <2>1. new = r.pos
    BY <1>6
  <2> HIDE DEF seen
  <2>2. seen = [r EXCEPT !.lag = 0]
    BY DEF seen
  <2> QED
    BY <2>1, <2>2, SilenceIs
<1>9. seen \in Runtime /\ seen.state = r.state
  BY <1>1, Sizes DEF Runtime
<1>10. quiet \in Runtime
  <2>1. Sound(seen)
    BY <1>9, <1>1 DEF Sound, Runtime
  <2> QED
    BY <2>1, SilenceSound DEF Sound
<1>11. /\ SameQueue(r, quiet) /\ quiet.hw_ptr_interrupt = r.hw_ptr_interrupt
       /\ quiet.lag = 0 /\ quiet.silence_filled = BufferSize /\ quiet.dma_area = Silenced(r)
  <2> HIDE DEF quiet
  <2> QED
    BY <1>1, <1>8 DEF Runtime, SameQueue
<1>12. int = IF in THEN NextPeriod(r) ELSE r.hw_ptr_interrupt
  <2> HIDE DEF quiet
  <2> QED
    BY <1>6, <1>11 DEF NextPeriod
<1>20. int \in 0 .. Boundary - 1
  <2> DEFINE v == (r.pos - r.hw_ptr_interrupt) % Boundary
             z == r.hw_ptr_interrupt + v - (v % PeriodSize)
             d == r.pos - r.hw_ptr_interrupt
  <2>1. d \in Int
    BY <1>1
  <2> HIDE DEF d
  <2>2. d % Boundary \in Int
    BY <2>1, Sizes
  <2>3. v \in Int
    BY <2>2 DEF d
  <2> HIDE DEF v
  <2>4. v % PeriodSize \in Int
    BY <2>3, Sizes
  <2>5. z \in Int
    BY <1>1, <2>3, <2>4
  <2> HIDE DEF z
  <2>6. z % Boundary \in 0 .. Boundary - 1
    BY <2>5, Sizes
  <2>7. NextPeriod(r) = z % Boundary
    BY DEF NextPeriod, z, v
  <2> QED
    BY <1>1, <1>12, <2>6, <2>7
<1> HIDE DEF quiet, int, seen
<1>13. /\ moved \in Runtime /\ Updated(r, moved) /\ moved.elapsed = 0
       /\ moved.hw_ptr_interrupt = int
  <2>1. /\ moved \in Runtime /\ moved.elapsed = 0
        /\ moved.hw_ptr_interrupt = int /\ moved.hw_ptr = new /\ moved.hw_ptr_base = base
        /\ moved.lag = quiet.lag /\ moved.silence_filled = quiet.silence_filled
        /\ moved.dma_area = quiet.dma_area /\ SameQueue(quiet, moved)
    BY <1>1, <1>6, <1>7, <1>10, <1>20, Sizes DEF Runtime, SameQueue
  <2> HIDE DEF moved
  <2> QED
    BY <2>1, <1>6, <1>11, <1>12 DEF Updated, SameQueue
<1>14. ASSUME new = r.hw_ptr
       PROVE  Updated(r, still) /\ still.elapsed = 0
              /\ still.hw_ptr_interrupt = r.hw_ptr_interrupt
  <2>1. /\ SamePointers(seen, still) /\ still.elapsed = 0
    BY <1>9 DEF Runtime, SamePointers, SameQueue
  <2>2. /\ SameQueue(r, seen) /\ seen.lag = 0 /\ seen.hw_ptr = r.hw_ptr
        /\ seen.hw_ptr_base = r.hw_ptr_base /\ seen.silence_filled = r.silence_filled
        /\ seen.dma_area = r.dma_area /\ seen.hw_ptr_interrupt = r.hw_ptr_interrupt
    BY <1>1 DEF Runtime, SameQueue, seen
  <2>3. r.lag = 0
    <3>1. (r.hw_ptr - r.hw_ptr) = 0
      BY <1>1, Sizes
    <3>2. 0 % Boundary = 0
      BY Sizes, Itself
    <3> QED
      BY <1>8, <1>14, <3>1, <3>2
  <2>4. Silenced(r) = r.dma_area
    <3>1. \A k \in Slots : ~(Offset(k, r.hw_ptr) < r.lag)
      <4> SUFFICES ASSUME NEW k \in Slots PROVE ~(Offset(k, r.hw_ptr) < 0)
        BY <2>3
      <4> DEFINE z == k - r.hw_ptr
      <4>1. z \in Int
        BY <1>1, Sizes DEF Slots
      <4> HIDE DEF z
      <4>2. z % BufferSize \in 0 .. BufferSize - 1
        BY <4>1, Sizes
      <4>3. Offset(k, r.hw_ptr) = z % BufferSize
        BY DEF Offset, z
      <4> QED
        BY <4>2, <4>3, Sizes
    <3>2. r.dma_area \in [Slots -> Contents]
      BY <1>1 DEF Runtime
    <3> QED
      BY <3>1, <3>2 DEF Silenced
  <2> HIDE DEF still
  <2> QED
    BY <2>1, <2>2, <2>4, <1>5, <1>6, <1>14 DEF Updated, SamePointers, SameQueue
<1>15. u = IF (new - r.hw_ptr) % Boundary >= BufferSize + PeriodSize THEN seen
           ELSE IF new = r.hw_ptr THEN still
           ELSE snd_pcm_update_state(moved)
  BY DEF snd_pcm_update_hw_ptr0, seen, new, base, at, int, quiet, wrapped, late
<1>16. ~((new - r.hw_ptr) % Boundary >= BufferSize + PeriodSize)
  BY <1>1, <1>8, Sizes
<1> HIDE DEF u, moved, still
<1>17. SamePointers(moved, snd_pcm_update_state(moved))
       /\ snd_pcm_update_state(moved).elapsed = moved.elapsed
  BY <1>13, UpdateStateKeeps
<1>18. Updated(r, snd_pcm_update_state(moved)) /\ snd_pcm_update_state(moved).elapsed = 0
       /\ snd_pcm_update_state(moved).hw_ptr_interrupt = int
  BY <1>13, <1>17 DEF Updated, SamePointers, SameQueue
<1>19. Updated(r, u) /\ u.elapsed = 0 /\ (~in => u.hw_ptr_interrupt = r.hw_ptr_interrupt)
  BY <1>12, <1>14, <1>15, <1>16, <1>18
<1> QED
  BY <1>19 DEF u

-----------------------------------------------------------------------------
(* A prepared stream is at the beginning.                                  *)
AtStart(r) ==
    r.state = "PREPARED" =>
        /\ r.pos = 0 /\ r.lag = 0 /\ r.hw_ptr = 0 /\ r.hw_ptr_base = 0
        /\ r.hw_ptr_interrupt = 0 /\ ~r.starved

Follows(r) == r.state \in {"RUNNING", "PAUSED"} => Tracked(r)

(* The frames that were accepted and not played are in the ring.           *)
Kept(r) ==
    ~r.starved =>
        /\ r.queued <= BufferSize
        /\ \A k \in 0 .. r.queued - 1 : r.dma_area[Slot(r.pos, k)] = "fresh"

(* appl_ptr is the end of the queue, which fits the buffer together with   *)
(* what was played since the last update.                                  *)
Even(r) == r.lag + r.queued <= BufferSize /\ Ahead(r.hw_ptr, r.lag + r.queued, r.appl_ptr)

(* The chunk being written fits behind the queue, and is in the ring when  *)
(* it is committed.                                                        *)
Room(r, c) == c.pc \in {"copy", "commit"} => c.avail + r.lag + r.queued <= BufferSize

Filled(r, c) ==
    c.pc = "commit" =>
        \A k \in 0 .. c.frames - 1 : r.dma_area[Slot(r.appl_ptr, k)] = "fresh"

Writing(r, c) == Even(r) /\ Room(r, c) /\ Filled(r, c)

(* The inductive invariant of a handle that is not reused.                 *)
Precise(r, i, c) ==
    /\ AtStart(r) /\ Follows(r) /\ OnTime(r, i) /\ Kept(r)
    /\ pcm_accessible_state(r) /\ ~r.starved => Writing(r, c)

(* Names for the numbers of a runtime.                                     *)
LEMMA Numbers ==
  ASSUME NEW r, Sound(r)
  PROVE  /\ r.hw_ptr \in 0 .. Boundary - 1 /\ r.appl_ptr \in 0 .. Boundary - 1
         /\ r.pos \in 0 .. Boundary - 1 /\ r.lag \in Nat /\ r.lag < BufferSize
         /\ r.queued \in Nat /\ r.hw_ptr_interrupt \in Nat /\ r.elapsed \in Nat
         /\ r.hw_ptr \in Int /\ r.appl_ptr \in Int /\ r.pos \in Int
         /\ r.dma_area \in [Slots -> Contents] /\ r.starved \in BOOLEAN
BY Sizes DEF Sound, Runtime

(* The frame k behind the card is not one of those that an update silences *)
(* or the card has played.                                                 *)
LEMMA QueueOffset ==
  ASSUME NEW r, Sound(r), Tracked(r), NEW k \in Nat, r.lag + k < BufferSize
  PROVE  Slot(r.pos, k) \in Slots /\ Offset(Slot(r.pos, k), r.hw_ptr) = r.lag + k
BY Numbers, RingAhead DEF Tracked

(* Nor is the frame k behind the end of the queue.                         *)
LEMMA FreeOffset ==
  ASSUME NEW r, Sound(r), Even(r), NEW k \in Nat, r.lag + r.queued + k < BufferSize
  PROVE  /\ Slot(r.appl_ptr, k) \in Slots
         /\ Offset(Slot(r.appl_ptr, k), r.hw_ptr) = r.lag + r.queued + k
<1> DEFINE l == r.lag + r.queued
<1>1. l \in Nat /\ r.hw_ptr \in Int /\ Ahead(r.hw_ptr, l, r.appl_ptr) /\ l + k < BufferSize
  BY Numbers DEF Even
<1> HIDE DEF l
<1>2. Slot(r.appl_ptr, k) \in Slots /\ Offset(Slot(r.appl_ptr, k), r.hw_ptr) = l + k
  BY <1>1, RingAhead
<1> QED
  BY <1>2 DEF l

(* The beginning of the period that the interrupt reports.                 *)
LEMMA PeriodFollows ==
  ASSUME NEW r, Sound(r), Periods(r)
  PROVE  NextPeriod(r) % PeriodSize = 0 /\ NextPeriod(r) <= r.pos
<1> DEFINE h == r.hw_ptr_interrupt
           p == r.pos
           d == p - h
           m == d % PeriodSize
           e == d - m
<1>1. /\ h \in Nat /\ p \in 0 .. Boundary - 1 /\ h <= p /\ h % PeriodSize = 0
      /\ d \in 0 .. Boundary - 1 /\ d \in Nat /\ Boundary \in Nat /\ Boundary > 0
      /\ PeriodSize \in Nat /\ PeriodSize > 0
  BY Numbers, Sizes DEF Periods
<1>2. (r.pos - r.hw_ptr_interrupt) % Boundary = d
  <2>1. d = r.pos - r.hw_ptr_interrupt
    OBVIOUS
  <2> HIDE DEF d
  <2>2. d % Boundary = d
    BY <1>1, SmallMod
  <2> QED
    BY <2>1, <2>2
<1>3. NextPeriod(r) = (h + d - m) % Boundary
  BY <1>2 DEF NextPeriod
<1>9. h + d = p
  BY <1>1
<1> HIDE DEF h, p, d
<1>4. m \in Nat /\ m <= d
  BY <1>1
<1>5. e % PeriodSize = 0
  <2>1. d \in Int
    BY <1>1
  <2>2. (d - (d % PeriodSize)) % PeriodSize = 0
    BY <1>1, <2>1, Floor
  <2> QED
    BY <2>2
<1>6. e \in Nat /\ e <= d /\ h + d - m = h + e
  BY <1>1, <1>4
<1> HIDE DEF e
<1> DEFINE x == h + e
<1>7. x \in 0 .. Boundary - 1 /\ x <= p
  BY <1>1, <1>6, <1>9
<1>8. x % PeriodSize = 0
  <2>1. h \in Int /\ e \in Int
    BY <1>1, <1>6
  <2> QED
    BY <1>1, <1>5, <2>1, DropDivisible
<1> HIDE DEF x
<1>10. x % Boundary = x
  BY <1>1, <1>7, SmallMod
<1>11. NextPeriod(r) = x
  BY <1>3, <1>6, <1>10 DEF x
<1> QED
  BY <1>7, <1>8, <1>11 DEF p

(* After an update everything is as it was, with hw_ptr at the card.       *)
LEMMA UpdatedPrecise ==
  ASSUME NEW r, Sound(r), NEW u, Sound(u), Updated(r, u), r.state = "RUNNING",
         NEW i, NEW c \in Calls, ChunkFits(c), Precise(r, i, c)
  PROVE  /\ Tracked(u) /\ Kept(u)
         /\ ~u.starved => Writing(u, c)
         /\ MaxPos < Boundary => Periods(u)
<1>1. Tracked(r)
  BY DEF Precise, Follows
<1>2. SameQueue(r, u) /\ u.hw_ptr = r.pos /\ u.lag = 0 /\ u.dma_area = Silenced(r)
  BY DEF Updated
<1>0. ~r.starved => Writing(r, c)
  BY DEF Precise, pcm_accessible_state
<1>3. Tracked(u)
  <2>1. Ahead(u.hw_ptr, u.lag, u.pos)
    BY <1>2, Numbers, AheadZero DEF SameQueue
  <2>2. \A j \in Slots : u.dma_area[j] # "old"
    BY <1>1, <1>2 DEF Silenced, Tracked
  <2> QED
    BY <1>2, <2>1, <2>2 DEF Tracked, Updated
<1>4. ASSUME ~r.starved PROVE Even(u)
  <2>1. Ahead(r.hw_ptr, r.lag + r.queued, r.appl_ptr) /\ r.lag + r.queued <= BufferSize
    BY <1>0, <1>4 DEF Writing, Even
  <2>2. Ahead(r.hw_ptr, r.lag, r.pos)
    BY <1>1 DEF Tracked
  <2>3. r.hw_ptr \in Int /\ r.lag \in Int /\ r.queued \in Int /\ r.lag >= 0
    BY Numbers
  <2>4. Ahead(r.pos, r.queued, r.appl_ptr)
    BY <2>1, <2>2, <2>3, AheadPlus
  <2>5. 0 + r.queued = r.queued
    BY <2>3
  <2> QED
    BY <1>2, <2>1, <2>3, <2>4, <2>5, Sizes DEF Even, SameQueue
<1>5. ASSUME NEW k \in Nat, r.lag + k < BufferSize, ~r.starved,
             r.dma_area[Slot(r.pos, k)] = "fresh"
      PROVE  u.dma_area[Slot(r.pos, k)] = "fresh"
  <2>1. Slot(r.pos, k) \in Slots /\ Offset(Slot(r.pos, k), r.hw_ptr) = r.lag + k
    BY <1>1, <1>5, QueueOffset
  <2>2. ~(r.lag + k < r.lag)
    BY Numbers
  <2> QED
    BY <1>2, <1>5, <2>1, <2>2 DEF Silenced
<1>6. Kept(u)
  <2> SUFFICES ASSUME ~r.starved
               PROVE  /\ r.queued <= BufferSize
                      /\ \A k \in 0 .. r.queued - 1 : u.dma_area[Slot(r.pos, k)] = "fresh"
    BY <1>2 DEF Kept, SameQueue
  <2>1. r.lag + r.queued <= BufferSize /\ r.lag \in Nat /\ r.queued \in Nat
    BY <1>0, Numbers DEF Writing, Even
  <2>2. ASSUME NEW k \in 0 .. r.queued - 1 PROVE u.dma_area[Slot(r.pos, k)] = "fresh"
    <3>1. k \in Nat /\ r.lag + k < BufferSize
      BY <2>1, Sizes
    <3>2. r.dma_area[Slot(r.pos, k)] = "fresh"
      BY DEF Precise, Kept
    <3> QED
      BY <1>5, <3>1, <3>2
  <2> QED
    BY <2>1, <2>2, Sizes
<1>7. ASSUME ~r.starved PROVE Room(u, c) /\ Filled(u, c)
  <2>1. /\ r.lag \in Nat /\ r.queued \in Nat /\ c.avail \in Nat /\ c.frames \in Nat
        /\ BufferSize \in Nat
    BY Numbers, Sizes DEF Calls
  <2>2. c.pc \in {"copy", "commit"} =>
           c.avail + r.lag + r.queued <= BufferSize /\ c.frames <= c.avail
    BY <1>0, <1>7 DEF Writing, Room, ChunkFits
  <2>3. Room(u, c)
    BY <1>2, <2>1, <2>2 DEF Room, SameQueue
  <2>4. ASSUME c.pc = "commit", NEW k \in 0 .. c.frames - 1
        PROVE  u.dma_area[Slot(r.appl_ptr, k)] = "fresh"
    <3>1. k \in Nat /\ r.lag + r.queued + k < BufferSize
      BY <2>1, <2>2, <2>4
    <3>2. Slot(r.appl_ptr, k) \in Slots
          /\ Offset(Slot(r.appl_ptr, k), r.hw_ptr) = r.lag + r.queued + k
      BY <1>0, <1>7, <3>1, FreeOffset DEF Writing
    <3>3. ~(r.lag + r.queued + k < r.lag)
      BY <2>1, <3>1
    <3>4. r.dma_area[Slot(r.appl_ptr, k)] = "fresh"
      BY <1>0, <1>7, <2>4 DEF Writing, Filled
    <3> QED
      BY <1>2, <3>2, <3>3, <3>4 DEF Silenced
  <2> QED
    BY <1>2, <2>3, <2>4 DEF Filled, SameQueue
<1>8. ASSUME MaxPos < Boundary PROVE Periods(u)
  <2>1. Periods(r)
    BY <1>8 DEF Precise, OnTime
  <2>2. NextPeriod(r) % PeriodSize = 0 /\ NextPeriod(r) <= r.pos
    BY <2>1, PeriodFollows
  <2>3. r.hw_ptr_interrupt % PeriodSize = 0 /\ r.hw_ptr_interrupt <= r.pos
    BY <2>1, Numbers DEF Periods
  <2>4. u.hw_ptr + u.lag = u.pos
    BY <1>2, Numbers DEF SameQueue
  <2> QED
    BY <1>2, <2>2, <2>3, <2>4 DEF Periods, Updated
<1> QED
  BY <1>2, <1>3, <1>4, <1>6, <1>7, <1>8 DEF Writing, SameQueue

(* The fields after the card played a frame.                               *)
LEMMA PlayedIs ==
  ASSUME NEW r, Sound(r)
  PROVE  LET u == Played(r)
         IN  /\ u.pos = (r.pos + 1) % Boundary /\ u.lag = r.lag + 1
             /\ u.elapsed = Least(r.elapsed + 1, Long)
             /\ u.dma_area = [r.dma_area EXCEPT ![Slot(r.pos, 0)] =
                                  IF @ = "fresh" THEN "old" ELSE @]
             /\ u.queued = (IF r.queued > 0 THEN r.queued - 1 ELSE 0)
             /\ u.starved = (r.starved \/ r.queued = 0)
             /\ u.hw_ptr = r.hw_ptr /\ u.hw_ptr_base = r.hw_ptr_base
             /\ u.appl_ptr = r.appl_ptr /\ u.silence_filled = r.silence_filled
             /\ u.hw_ptr_interrupt = r.hw_ptr_interrupt
<1>1. r \in Runtime /\ r.pos + 0 = r.pos
  BY Numbers DEF Sound
<1>2. Slot(r.pos, 0) = r.pos % BufferSize
  BY <1>1 DEF Slot
<1> DEFINE p == (r.pos + 1) % Boundary
           z == r.pos % BufferSize
           l == r.lag + 1
           e == Least(r.elapsed + 1, Long)
           A == [r.dma_area EXCEPT ![z] = IF @ = "fresh" THEN "old" ELSE @]
           q == IF r.queued > 0 THEN r.queued - 1 ELSE 0
           v == r.starved \/ r.queued = 0
           u == [r EXCEPT !.pos = p, !.lag = l, !.elapsed = e, !.dma_area = A,
                          !.queued = q, !.starved = v]
<1>3. Played(r) = u
  BY DEF Played
<1>4. A = [r.dma_area EXCEPT ![Slot(r.pos, 0)] = IF @ = "fresh" THEN "old" ELSE @]
  BY <1>2
<1> HIDE DEF p, l, e, A, q, v
<1>5. /\ u.pos = p /\ u.lag = l /\ u.elapsed = e /\ u.dma_area = A /\ u.queued = q
      /\ u.starved = v /\ u.hw_ptr = r.hw_ptr /\ u.hw_ptr_base = r.hw_ptr_base
      /\ u.appl_ptr = r.appl_ptr /\ u.silence_filled = r.silence_filled
      /\ u.hw_ptr_interrupt = r.hw_ptr_interrupt
  BY <1>1 DEF Runtime
<1> HIDE DEF u
<1> QED
  BY <1>3, <1>4, <1>5 DEF p, l, e, q, v

(* The card plays a frame of a stream that follows it.                     *)
LEMMA PlayedPrecise ==
  ASSUME Base, NEW c \in Calls, ChunkFits(c), DmaFrame, Precise(rt, irq, c)
  PROVE  Precise(rt', irq', c)
<1> DEFINE r == rt
           u == rt'
<1>1. /\ Sound(r) /\ r.state = "RUNNING" /\ r.lag < MaxLag /\ r.pos < MaxPos
      /\ irq' = IF irq = "none" /\ (r.pos + 1) % PeriodSize = 0 THEN "raised" ELSE irq
  BY DEF Base, Sound, DmaFrame
<1>2. u = Played(r) /\ Sound(u) /\ u.state = "RUNNING"
  BY <1>1, DmaFrameIs, PlayedSound
<1>3. /\ u.pos = (r.pos + 1) % Boundary /\ u.lag = r.lag + 1
      /\ u.elapsed = Least(r.elapsed + 1, Long)
      /\ u.dma_area = [r.dma_area EXCEPT ![Slot(r.pos, 0)] = IF @ = "fresh" THEN "old" ELSE @]
      /\ u.queued = (IF r.queued > 0 THEN r.queued - 1 ELSE 0)
      /\ u.starved = (r.starved \/ r.queued = 0)
      /\ u.hw_ptr = r.hw_ptr /\ u.hw_ptr_base = r.hw_ptr_base
      /\ u.appl_ptr = r.appl_ptr /\ u.silence_filled = r.silence_filled
      /\ u.hw_ptr_interrupt = r.hw_ptr_interrupt
  BY <1>1, <1>2, PlayedIs
<1>4. /\ r.hw_ptr \in Int /\ r.pos \in Int /\ r.pos \in 0 .. Boundary - 1
      /\ r.lag \in Nat /\ r.lag < BufferSize /\ r.lag + 1 < BufferSize /\ r.queued \in Nat
      /\ r.hw_ptr_interrupt \in Nat /\ r.elapsed \in Nat
      /\ r.dma_area \in [Slots -> Contents] /\ r.starved \in BOOLEAN
      /\ r.hw_ptr \in 0 .. Boundary - 1
  BY <1>1, Numbers, Sizes
<1>5. Tracked(r)
  BY <1>1 DEF Precise, Follows
<1>6. Slot(r.pos, 0) \in Slots /\ Offset(Slot(r.pos, 0), r.hw_ptr) = r.lag
  <2>1. r.lag + 0 < BufferSize /\ r.lag + 0 = r.lag
    BY <1>4, Sizes
  <2> QED
    BY <1>1, <1>5, <2>1, QueueOffset
<1>7. Ahead(r.pos, 1, u.pos)
  BY <1>3 DEF Ahead
<1> HIDE DEF r, u
<1>8. Ahead(r.hw_ptr, r.lag + 1, u.pos)
  <2>1. Ahead(r.hw_ptr, r.lag, r.pos) /\ r.lag \in Int /\ 1 \in Int
    BY <1>4, <1>5 DEF Tracked
  <2> QED
    BY <1>4, <1>7, <2>1, AheadPlus
<1>9. Tracked(u)
  <2>1. ASSUME NEW j \in Slots, u.dma_area[j] = "old" PROVE Offset(j, r.hw_ptr) < r.lag + 1
    <3>1. CASE j = Slot(r.pos, 0)
      BY <1>4, <1>6, <3>1
    <3>2. CASE j # Slot(r.pos, 0)
      <4>1. r.dma_area[j] = "old"
        BY <1>3, <1>4, <2>1, <3>2
      <4>2. Offset(j, r.hw_ptr) < r.lag
        BY <1>5, <4>1 DEF Tracked
      <4> DEFINE z == j - r.hw_ptr
      <4>3. z \in Int
        BY <1>4, Sizes DEF Slots
      <4> HIDE DEF z
      <4>4. z % BufferSize \in Int
        BY <4>3, Sizes
      <4>5. Offset(j, r.hw_ptr) \in Int
        BY <4>4 DEF z, Offset
      <4> QED
        BY <1>4, <4>2, <4>5
    <3> QED
      BY <3>1, <3>2
  <2> QED
    BY <1>3, <1>5, <1>8, <2>1 DEF Tracked
<1>10. OnTime(u, irq')
  <2>1. CASE ~(MaxPos < Boundary)
    <3>1. r.elapsed <= r.lag
      BY <1>1, <2>1 DEF Precise, OnTime, r
    <3>2. Least(r.elapsed + 1, Long) <= r.lag + 1
      BY <1>4, <3>1, Sizes DEF Least
    <3> QED
      BY <1>3, <2>1, <3>2 DEF OnTime
  <2>2. CASE MaxPos < Boundary
    <3>1. Periods(r) /\ (irq # "none" => r.hw_ptr_interrupt + PeriodSize <= r.pos)
      BY <1>1, <2>2 DEF Precise, OnTime, r
    <3>2. MaxPos \in Int /\ Boundary \in Nat /\ Boundary > 0 /\ PeriodSize \in Nat
          /\ PeriodSize > 0
      BY StreamAssumption, Sizes
    <3> DEFINE n == r.pos + 1
               h == r.hw_ptr_interrupt
    <3>3. n \in 0 .. Boundary - 1 /\ n \in Int /\ h \in Int /\ h < n
      BY <1>1, <1>4, <2>2, <3>1, <3>2 DEF Periods
    <3>4. u.pos = n % Boundary
      BY <1>3
    <3>5. h % PeriodSize = 0
      BY <3>1 DEF Periods
    <3>6. n % PeriodSize = 0 \/ irq' = irq
      BY <1>1
    <3>11. h + PeriodSize <= r.pos => h + PeriodSize <= n
      BY <1>4, <3>2, <3>3
    <3> HIDE DEF n, h
    <3>7. u.pos = n
      BY <3>2, <3>3, <3>4, SmallMod
    <3>8. n % PeriodSize = 0 => h + PeriodSize <= n
      BY <3>2, <3>3, <3>5, NextMultiple
    <3>9. irq' # "none" => h + PeriodSize <= n
      BY <3>1, <3>6, <3>8, <3>11 DEF h
    <3>10. Periods(u)
      BY <1>3, <1>4, <3>1, <3>7 DEF Periods, n
    <3> QED
      BY <1>2, <1>3, <2>2, <3>7, <3>9, <3>10 DEF OnTime, h
  <2> QED
    BY <2>1, <2>2
<1>11. CASE u.starved
  BY <1>2, <1>9, <1>10, <1>11 DEF Precise, AtStart, Follows, Kept, u
<1>12. CASE ~u.starved
  <2>0. ~r.starved /\ r.queued # 0
    <3>1. ~(r.starved \/ r.queued = 0)
      BY <1>3, <1>12, Zenon
    <3> QED
      BY <3>1
  <2>1. ~r.starved /\ r.queued > 0 /\ u.queued = r.queued - 1
    <3>1. r.queued > 0
      BY <1>4, <2>0
    <3> QED
      BY <1>3, <2>0, <3>1
  <2>2. Writing(r, c) /\ r.queued <= BufferSize
        /\ \A k \in 0 .. r.queued - 1 : r.dma_area[Slot(r.pos, k)] = "fresh"
    BY <1>1, <2>1 DEF Precise, Kept, pcm_accessible_state, r
  <2>3. u.lag + u.queued = r.lag + r.queued
    BY <1>3, <1>4, <2>1
  <2>4. Even(u)
    BY <1>3, <2>2, <2>3 DEF Writing, Even
  <2>5. r.lag + r.queued <= BufferSize
    BY <2>2 DEF Writing, Even
  <2>6. ASSUME NEW j \in Slots, Offset(j, r.hw_ptr) # r.lag
        PROVE  u.dma_area[j] = r.dma_area[j]
    BY <1>3, <1>4, <1>6, <2>6
  <2>7. Kept(u)
    <3>1. ASSUME NEW k \in 0 .. u.queued - 1 PROVE u.dma_area[Slot(u.pos, k)] = "fresh"
      <4>1. /\ k \in Int /\ 1 + k \in 0 .. r.queued - 1 /\ 1 + k \in Nat
            /\ r.lag + (1 + k) < BufferSize /\ r.lag + (1 + k) # r.lag
        BY <1>4, <2>1, <2>5, Sizes
      <4>2. Slot(u.pos, k) = Slot(r.pos, 1 + k)
        BY <1>4, <1>7, <4>1, SlotPlus
      <4> DEFINE m == 1 + k
      <4>3. m \in Nat /\ r.lag + m < BufferSize /\ r.lag + m # r.lag
        BY <4>1
      <4>4. r.dma_area[Slot(r.pos, m)] = "fresh"
        BY <2>2, <4>1
      <4> HIDE DEF m
      <4>5. Slot(r.pos, m) \in Slots /\ Offset(Slot(r.pos, m), r.hw_ptr) = r.lag + m
        BY <1>1, <1>5, <4>3, QueueOffset DEF r
      <4>6. u.dma_area[Slot(r.pos, m)] = "fresh"
        BY <2>6, <4>3, <4>4, <4>5
      <4> QED
        BY <4>2, <4>6 DEF m
    <3>2. u.queued <= BufferSize
      BY <1>4, <2>1, <2>2, Sizes
    <3> QED
      BY <3>1, <3>2 DEF Kept
  <2>8. Room(u, c)
    <3>1. c.avail \in Nat
      BY Sizes DEF Calls
    <3>2. c.avail + u.lag + u.queued = c.avail + r.lag + r.queued
      BY <1>3, <1>4, <2>1, <3>1
    <3> QED
      BY <2>2, <3>2 DEF Writing, Room
  <2>9. Filled(u, c)
    <3>1. ASSUME c.pc = "commit", NEW k \in 0 .. c.frames - 1
          PROVE  u.dma_area[Slot(u.appl_ptr, k)] = "fresh"
      <4>1. /\ c.avail + r.lag + r.queued <= BufferSize /\ c.frames <= c.avail
            /\ c.avail \in Nat /\ c.frames \in Nat
        BY <2>2, <3>1, Sizes DEF Writing, Room, ChunkFits, Calls
      <4>2. k \in Nat /\ r.lag + r.queued + k < BufferSize /\ r.lag + r.queued + k # r.lag
        BY <1>4, <2>1, <4>1, Sizes
      <4>3. Slot(r.appl_ptr, k) \in Slots
            /\ Offset(Slot(r.appl_ptr, k), r.hw_ptr) = r.lag + r.queued + k
        BY <1>1, <2>2, <4>2, FreeOffset DEF Writing, r
      <4>4. r.dma_area[Slot(r.appl_ptr, k)] = "fresh"
        BY <2>2, <3>1 DEF Writing, Filled
      <4> QED
        BY <1>3, <2>6, <4>2, <4>3, <4>4
    <3> QED
      BY <3>1 DEF Filled
  <2> QED
    BY <1>2, <1>9, <1>10, <2>4, <2>7, <2>8, <2>9 DEF Precise, AtStart, Follows, Writing, u
<1>13. u.starved \in BOOLEAN
  BY <1>2, Numbers DEF u
<1> QED
  BY <1>11, <1>12, <1>13

(* avail is the room that the queue leaves, less what was played since the *)
(* last update; both branches of the OS/2 code agree on it.                *)
LEMMA AvailIs ==
  ASSUME NEW r, Sound(r), Even(r)
  PROVE  snd_pcm_playback_avail(r) = BufferSize - (r.lag + r.queued)
<1> DEFINE h == r.hw_ptr
           a == r.appl_ptr
           l == r.lag + r.queued
<1>1. /\ h \in 0 .. Boundary - 1 /\ a \in 0 .. Boundary - 1 /\ l \in 0 .. BufferSize
      /\ BufferSize \in Nat /\ Boundary \in Nat /\ 2 * BufferSize <= Boundary
      /\ BufferSize > 0
  BY Numbers, Sizes DEF Even
<1>2. Ahead(h, l, a)
  BY DEF Even
<1>3. snd_pcm_playback_avail(r) =
        LET room == IF BufferSize > a THEN h + BufferSize - a
                    ELSE IF a - h < 0 \/ a - h > BufferSize THEN 0
                    ELSE BufferSize - (a - h)
        IN  IF room >= Boundary THEN room - Boundary ELSE room
  BY DEF snd_pcm_playback_avail
<1> HIDE DEF h, a, l
<1>4. a = IF h + l < Boundary THEN h + l ELSE h + l - Boundary
  BY <1>1, <1>2, AheadIs
<1>5. snd_pcm_playback_avail(r) = BufferSize - l
  BY <1>1, <1>3, <1>4
<1> QED
  BY <1>5 DEF l

(* silence_init of a stream at the beginning: everything but the queue.    *)
LEMMA SilenceInitIs ==
  ASSUME NEW r, Sound(r), Even(r), r.hw_ptr = 0, r.lag = 0
  PROVE  LET u == silence_init(r)
         IN  /\ u = [r EXCEPT !.dma_area = u.dma_area, !.silence_filled = BufferSize]
             /\ \A j \in Slots : u.dma_area[j] = IF j < r.queued THEN r.dma_area[j]
                                                ELSE "silence"
<1> DEFINE n == r.queued
           B == BufferSize
           queue == snd_pcm_playback_hw_avail(r)
           filled == IF queue < 0 \/ queue > BufferSize THEN BufferSize ELSE queue
           from == r.hw_ptr + filled
           frames == BufferSize - filled
           A == [j \in Slots |-> IF (j - from) % BufferSize < frames THEN "silence"
                                 ELSE r.dma_area[j]]
           u == silence_init(r)
<1>1. n \in Nat /\ n <= B /\ B \in Nat /\ B > 0 /\ r.lag + n = n
  BY Numbers, Sizes DEF Even
<1>2. queue = n
  BY <1>1, AvailIs DEF snd_pcm_playback_hw_avail
<1>3. filled = n
  <2> HIDE DEF queue, n
  <2> QED
    BY <1>1, <1>2
<1>4. from = n /\ frames = B - n
  <2> HIDE DEF filled, n
  <2> QED
    BY <1>1, <1>3
<1>5. silence_init(r) = fill_silence_frames(r, from, frames)
  BY DEF silence_init
<1> HIDE DEF from, frames
<1>6. r \in Runtime
  BY DEF Sound
<1>7. fill_silence_frames(r, from, frames) =
         [r EXCEPT !.dma_area = A, !.silence_filled = BufferSize]
  BY <1>6 DEF fill_silence_frames, Runtime
<1>8. ASSUME NEW j \in Slots
      PROVE  A[j] = IF j < n THEN r.dma_area[j] ELSE "silence"
  <2>1. j \in Int /\ 0 <= j /\ j < B
    BY <1>1 DEF Slots
  <2> HIDE DEF n, B
  <2>2. CASE j < n
    <3> DEFINE b == 0 - B
               x == j - n
    <3>1. (0 - B) % B = 0
      <4>1. 0 % B = 0 /\ B % B = 0
        BY <1>1, Itself
      <4>2. 0 \in Int /\ B \in Int
        BY <1>1
      <4> QED
        BY <1>1, <4>1, <4>2, DropDivisible
    <3>2. b \in Int /\ x \in Int /\ b <= x /\ x < b + B /\ b % B = 0
      BY <1>1, <2>1, <2>2, <3>1
    <3>4. x - b = j - n + B
      BY <1>1, <2>1
    <3> HIDE DEF b
    <3>3. x % B = x - b
      <4> HIDE DEF x
      <4> QED
        BY <1>1, <3>2, AfterMultiple
    <3>5. ~((j - n) % B < B - n)
      BY <1>1, <2>1, <3>3, <3>4
    <3> QED
      BY <1>4, <2>2, <3>5 DEF B
  <2>3. CASE ~(j < n)
    <3> DEFINE x == j - n
    <3>1. x \in 0 .. B - 1 /\ x < B - n
      BY <1>1, <2>1, <2>3
    <3> HIDE DEF x
    <3>2. x % B = x
      BY <1>1, <3>1, SmallMod
    <3>3. (j - n) % B < B - n
      BY <3>1, <3>2 DEF x
    <3> QED
      BY <1>4, <2>3, <3>3 DEF B
  <2> QED
    BY <2>2, <2>3
<1> HIDE DEF A
<1>9. u = [r EXCEPT !.dma_area = A, !.silence_filled = BufferSize]
  BY <1>5, <1>7
<1>10. u.dma_area = A
  BY <1>6, <1>9 DEF Runtime
<1> HIDE DEF u
<1> QED
  BY <1>8, <1>9, <1>10 DEF u

(* The start of a prepared stream that has something to play.              *)
LEMMA StartPrecise ==
  ASSUME NEW r, Sound(r), r.state = "PREPARED", AtStart(r), Kept(r), Even(r),
         snd_pcm_playback_avail(r) < BufferSize
  PROVE  LET u == snd_pcm_start(r)
         IN  /\ Sound(u) /\ u.state = "RUNNING" /\ Tracked(u) /\ Kept(u) /\ Even(u)
             /\ Periods(u) /\ u.elapsed = 0 /\ u.lag = r.lag /\ u.queued = r.queued
             /\ u.starved = r.starved
<1> DEFINE s == [r EXCEPT !.state = "RUNNING", !.running = TRUE, !.elapsed = 0]
           u == silence_init(s)
<1>0. /\ r.pos = 0 /\ r.lag = 0 /\ r.hw_ptr = 0 /\ r.hw_ptr_base = 0
      /\ r.hw_ptr_interrupt = 0 /\ ~r.starved
  BY DEF AtStart
<1>1. r \in Runtime
  BY DEF Sound
<1>2. /\ s \in Runtime /\ s.state = "RUNNING" /\ s.running = TRUE /\ s.elapsed = 0
      /\ SamePointers(r, s)
  BY <1>1, Sizes DEF Runtime, States, SamePointers, SameQueue
<1>3. snd_pcm_start(r) = u
  BY DEF snd_pcm_start
<1> HIDE DEF s
<1>4. Sound(s)
  BY <1>2 DEF Sound, SamePointers
<1>5. Even(s) /\ s.hw_ptr = 0 /\ s.lag = 0
  BY <1>0, <1>2 DEF Even, SamePointers, SameQueue
<1>6. /\ u = [s EXCEPT !.dma_area = u.dma_area, !.silence_filled = BufferSize]
      /\ \A j \in Slots : u.dma_area[j] = IF j < s.queued THEN s.dma_area[j] ELSE "silence"
  BY <1>4, <1>5, SilenceInitIs
<1>7. Sound(u) /\ u.state = "RUNNING"
  BY <1>2, <1>4, SilenceInitSound
<1> HIDE DEF u
<1>8. /\ SameQueue(s, u) /\ u.hw_ptr = s.hw_ptr /\ u.hw_ptr_base = s.hw_ptr_base
      /\ u.hw_ptr_interrupt = s.hw_ptr_interrupt /\ u.lag = s.lag /\ u.elapsed = s.elapsed
      /\ u.silence_filled = BufferSize
  <2> DEFINE A == u.dma_area
  <2>1. u = [s EXCEPT !.dma_area = A, !.silence_filled = BufferSize]
    BY <1>6
  <2> HIDE DEF A
  <2> QED
    BY <1>2, <2>1 DEF Runtime, SameQueue
<1>9. /\ u.pos = 0 /\ u.lag = 0 /\ u.hw_ptr = 0 /\ u.hw_ptr_base = 0
      /\ u.hw_ptr_interrupt = 0 /\ u.starved = r.starved /\ u.queued = r.queued
      /\ u.appl_ptr = r.appl_ptr /\ u.elapsed = 0
  BY <1>0, <1>2, <1>8 DEF SamePointers, SameQueue
<1>10. ASSUME NEW j \in Slots
       PROVE  u.dma_area[j] = IF j < r.queued THEN "fresh" ELSE "silence"
  <2>1. u.dma_area[j] = IF j < r.queued THEN r.dma_area[j] ELSE "silence"
    BY <1>2, <1>6 DEF SamePointers, SameQueue
  <2>2. ASSUME j < r.queued PROVE r.dma_area[j] = "fresh"
    <3>1. j \in 0 .. r.queued - 1 /\ j \in 0 .. BufferSize - 1 /\ j \in Int
          /\ BufferSize \in Nat /\ BufferSize > 0
      BY <2>2, Numbers, Sizes DEF Slots
    <3>2. r.dma_area[Slot(r.pos, j)] = "fresh"
      BY <1>0, <3>1 DEF Kept
    <3>3. j % BufferSize = j /\ 0 + j = j
      BY <3>1, SmallMod
    <3> QED
      BY <1>0, <3>2, <3>3 DEF Slot
  <2> QED
    BY <2>1, <2>2
<1>11. Tracked(u)
  <2>1. Ahead(0, 0, 0)
    BY Sizes, AheadZero
  <2> QED
    BY <1>8, <1>9, <1>10, <2>1, Sizes DEF Tracked
<1>12. Kept(u)
  <2>1. r.queued <= BufferSize
    BY <1>0 DEF Kept
  <2>2. ASSUME NEW k \in 0 .. r.queued - 1 PROVE u.dma_area[Slot(0, k)] = "fresh"
    <3>1. k \in 0 .. BufferSize - 1 /\ k < r.queued /\ k \in Int
          /\ BufferSize \in Nat /\ BufferSize > 0
      BY <2>1, Numbers, Sizes
    <3>2. k % BufferSize = k /\ 0 + k = k
      BY <3>1, SmallMod
    <3>3. Slot(0, k) = k /\ k \in Slots
      BY <3>1, <3>2 DEF Slot, Slots
    <3> QED
      BY <1>10, <3>1, <3>3
  <2> QED
    BY <1>9, <2>1, <2>2 DEF Kept
<1>13. Even(u)
  BY <1>0, <1>9 DEF Even
<1>14. Periods(u)
  <2>1. 0 % PeriodSize = 0
    BY Sizes, Itself
  <2> QED
    BY <1>9, <2>1 DEF Periods
<1> QED
  BY <1>0, <1>3, <1>7, <1>9, <1>11, <1>12, <1>13, <1>14

-----------------------------------------------------------------------------
(* The interrupt flag after a section that found i: a raised interrupt is  *)
(* taken when the section ends.                                            *)
Taken(i, j) == i \in {"none", "raised"} /\ j = IF i = "raised" THEN "due" ELSE i

(* A section leaves the interrupt on time, and none pending when the       *)
(* stream was stopped.                                                     *)
LEMMA TakenOnTime ==
  ASSUME NEW r, NEW i, NEW j, OnTime(r, i), Taken(i, j)
  PROVE  /\ OnTime(r, j) /\ j # "raised"
         /\ MaxPos < Boundary /\ r.state \notin {"RUNNING", "XRUN"} => j = "none"
BY DEF OnTime, Taken

(* The steps of a call that do not write hold no chunk.                    *)
LEMMA NoChunk ==
  ASSUME NEW r, NEW i, NEW c, NEW d, d.pc \notin {"copy", "commit"}, Precise(r, i, c)
  PROVE  Precise(r, i, d)
BY DEF Precise, Writing, Room, Filled

(* A stream that was stopped keeps its queue, and nothing else is asked.   *)
LEMMA SettledPrecise ==
  ASSUME NEW r, NEW u, SamePointers(r, u), Kept(r), NEW i, NEW c,
         u.state \in {"OPEN", "SETUP", "XRUN"}, i = "raised" => u.state = "XRUN"
  PROVE  Precise(u, i, c)
<1>1. Kept(u)
  BY DEF Kept, SamePointers, SameQueue
<1> QED
  BY <1>1 DEF Precise, AtStart, Follows, OnTime, pcm_accessible_state

(* An update of a running stream, outside the interrupt.                   *)
LEMMA UpdateTracks ==
  ASSUME Timely, NEW r, Sound(r), r.state = "RUNNING", NEW i, NEW c \in Calls, ChunkFits(c),
         Precise(r, i, c)
  PROVE  LET u == snd_pcm_update_hw_ptr(r)
         IN  /\ Sound(u) /\ u.state \in {"RUNNING", "XRUN"} /\ u.elapsed = 0
             /\ Tracked(u) /\ Kept(u) /\ (~u.starved => Writing(u, c))
             /\ MaxPos < Boundary => Periods(u)
             /\ u.hw_ptr_interrupt = r.hw_ptr_interrupt /\ u.pos = r.pos
<1> DEFINE u == snd_pcm_update_hw_ptr(r)
<1>1. Tracked(r) /\ OnTime(r, i)
  BY DEF Precise, Follows
<1>2. u = snd_pcm_update_hw_ptr0(r, FALSE)
  BY DEF snd_pcm_update_hw_ptr, snd_pcm_running
<1>3. Updated(r, u) /\ u.elapsed = 0 /\ u.hw_ptr_interrupt = r.hw_ptr_interrupt
  BY <1>1, <1>2, UpdateExact
<1>4. Sound(u) /\ u.state \in {"RUNNING", "XRUN"}
  BY UpdateHwSound
<1> HIDE DEF u
<1>5. /\ Tracked(u) /\ Kept(u) /\ (~u.starved => Writing(u, c))
      /\ MaxPos < Boundary => Periods(u)
  BY <1>3, <1>4, UpdatedPrecise
<1>6. u.pos = r.pos
  BY <1>3 DEF Updated, SameQueue
<1> QED
  BY <1>3, <1>4, <1>5, <1>6 DEF u

(* GetStatus and the updates within a write.                               *)
LEMMA UpdatePrecise ==
  ASSUME Timely, NEW r, Sound(r), NEW i, NEW c \in Calls, ChunkFits(c), Precise(r, i, c),
         NEW j, Taken(i, j)
  PROVE  Precise(snd_pcm_update_hw_ptr(r), j, c)
<1> DEFINE u == snd_pcm_update_hw_ptr(r)
<1>0. OnTime(r, i)
  BY DEF Precise
<1>1. OnTime(r, j) /\ j # "raised"
  BY <1>0, TakenOnTime
<1>2. CASE r.state # "RUNNING"
  <2>1. u = r
    BY <1>2 DEF snd_pcm_update_hw_ptr, snd_pcm_running
  <2> HIDE DEF u
  <2>2. Precise(r, j, c)
    BY <1>1 DEF Precise
  <2> QED
    BY <2>1, <2>2 DEF u
<1>3. CASE r.state = "RUNNING"
  <2>1. /\ Sound(u) /\ u.state \in {"RUNNING", "XRUN"} /\ u.elapsed = 0
        /\ Tracked(u) /\ Kept(u) /\ (~u.starved => Writing(u, c))
        /\ MaxPos < Boundary => Periods(u)
        /\ u.hw_ptr_interrupt = r.hw_ptr_interrupt /\ u.pos = r.pos
    BY <1>3, UpdateTracks
  <2> HIDE DEF u
  <2>2. 0 <= u.lag
    BY <2>1, Numbers
  <2>3. OnTime(u, j)
    BY <1>1, <1>3, <2>1, <2>2 DEF OnTime
  <2>4. Precise(u, j, c)
    BY <2>1, <2>3 DEF Precise, AtStart, Follows
  <2> QED
    BY <2>4 DEF u
<1> QED
  BY <1>2, <1>3

(* The period interrupt.                                                   *)
LEMMA ElapsedPrecise ==
  ASSUME Timely, NEW r, Sound(r), NEW i, i # "none", NEW c \in Calls, ChunkFits(c),
         Precise(r, i, c)
  PROVE  Precise(IF snd_pcm_running(r) THEN snd_pcm_update_hw_ptr0(r, TRUE) ELSE r, "none", c)
<1> DEFINE u == snd_pcm_update_hw_ptr0(r, TRUE)
<1>1. CASE r.state # "RUNNING"
  <2>1. OnTime(r, "none")
    BY <1>1 DEF Precise, OnTime
  <2>2. Precise(r, "none", c)
    BY <2>1 DEF Precise
  <2> QED
    BY <1>1, <2>2 DEF snd_pcm_running
<1>2. CASE r.state = "RUNNING"
  <2>1. Tracked(r) /\ OnTime(r, i)
    BY <1>2 DEF Precise, Follows
  <2>2. Updated(r, u) /\ u.elapsed = 0
    BY <1>2, <2>1, UpdateExact
  <2>3. Sound(u) /\ u.state \in {"RUNNING", "XRUN"}
    BY <1>2, UpdateSound
  <2> HIDE DEF u
  <2>4. /\ Tracked(u) /\ Kept(u) /\ (~u.starved => Writing(u, c))
        /\ MaxPos < Boundary => Periods(u)
    BY <1>2, <2>2, <2>3, UpdatedPrecise
  <2>5. 0 <= u.lag
    BY <2>3, Numbers
  <2>6. OnTime(u, "none")
    BY <2>2, <2>3, <2>4, <2>5 DEF OnTime
  <2>7. Precise(u, "none", c)
    BY <2>3, <2>4, <2>6 DEF Precise, AtStart, Follows
  <2> QED
    BY <1>2, <2>7 DEF u, snd_pcm_running
<1> QED
  BY <1>1, <1>2

(* A card that pauses is watched below the boundary only.                  *)
LEMMA PausesEarly == ASSUME Timely, PauseInfo PROVE MaxPos < Boundary
BY DEF Timely

(* The pause, and the one that the card refuses.                           *)
LEMMA PushPrecise ==
  ASSUME Timely, NEW r, Sound(r), NEW i, NEW c \in Calls, ChunkFits(c), Precise(r, i, c),
         NEW j, Taken(i, j)
  PROVE  Precise(pause_push(r), j, c) /\ Precise(pause_refused(r), j, c)
<1> DEFINE w == snd_pcm_update_hw_ptr(r)
           u == [w EXCEPT !.elapsed = Long, !.running = FALSE, !.state = "PAUSED"]
           v == [w EXCEPT !.elapsed = Long]
<1>0. OnTime(r, i)
  BY DEF Precise
<1>1. OnTime(r, j) /\ j # "raised"
  BY <1>0, TakenOnTime
<1>2. CASE ~(PauseInfo /\ r.state = "RUNNING")
  <2>1. Precise(r, j, c)
    BY <1>1 DEF Precise
  <2> QED
    BY <1>2, <2>1 DEF pause_push, pause_refused
<1>3. CASE PauseInfo /\ r.state = "RUNNING"
  <2>0. MaxPos < Boundary
    BY <1>3, PausesEarly
  <2>1. /\ Sound(w) /\ w.state \in {"RUNNING", "XRUN"}
        /\ Tracked(w) /\ Kept(w) /\ (~w.starved => Writing(w, c))
        /\ MaxPos < Boundary => Periods(w)
        /\ w.hw_ptr_interrupt = r.hw_ptr_interrupt /\ w.pos = r.pos
    BY <1>3, UpdateTracks
  <2>2. pause_push(r) = u /\ pause_refused(r) = v
    BY <1>3 DEF pause_push, pause_refused
  <2>3. w \in Runtime
    BY <2>1 DEF Sound
  <2> HIDE DEF w
  <2>4. SamePointers(w, u) /\ u.state = "PAUSED" /\ SamePointers(w, v) /\ v.state = w.state
    BY <2>3 DEF Runtime, SamePointers, SameQueue
  <2> HIDE DEF u, v
  <2>5. ASSUME NEW z, SamePointers(w, z)
        PROVE  Tracked(z) /\ Kept(z) /\ (~z.starved => Writing(z, c)) /\ Periods(z)
               /\ z.hw_ptr_interrupt = r.hw_ptr_interrupt /\ z.pos = r.pos
    <3>1. Tracked(z)
      BY <2>1, <2>5 DEF SamePointers, SameQueue, Tracked
    <3>2. Kept(z)
      BY <2>1, <2>5 DEF SamePointers, SameQueue, Kept
    <3>3. ~z.starved => Writing(z, c)
      BY <2>1, <2>5 DEF SamePointers, SameQueue, Writing, Even, Room, Filled
    <3>4. Periods(z) /\ z.hw_ptr_interrupt = r.hw_ptr_interrupt /\ z.pos = r.pos
      BY <2>0, <2>1, <2>5 DEF SamePointers, SameQueue, Periods
    <3> QED
      BY <3>1, <3>2, <3>3, <3>4
  <2>6. OnTime(u, j) /\ OnTime(v, j)
    BY <1>1, <1>3, <2>0, <2>1, <2>4, <2>5 DEF OnTime
  <2>7. Precise(u, j, c)
    BY <2>4, <2>5, <2>6 DEF Precise, AtStart, Follows
  <2>8. Precise(v, j, c)
    BY <2>1, <2>4, <2>5, <2>6 DEF Precise, AtStart, Follows
  <2> QED
    BY <2>2, <2>7, <2>8
<1> QED
  BY <1>2, <1>3

(* A release changes the state only.                                       *)
LEMMA ReleaseKeeps ==
  ASSUME NEW r \in Runtime
  PROVE  /\ SamePointers(r, pause_release(r))
         /\ \/ pause_release(r) = r /\ ~(PauseInfo /\ r.state = "PAUSED")
            \/ pause_release(r).state = "RUNNING" /\ PauseInfo /\ r.state = "PAUSED"
<1> DEFINE u == [r EXCEPT !.elapsed = Long, !.running = TRUE, !.state = "RUNNING"]
<1>1. SamePointers(r, r)
  BY DEF SamePointers, SameQueue
<1>2. SamePointers(r, u) /\ u.state = "RUNNING"
  BY DEF Runtime, SamePointers, SameQueue
<1>3. \/ pause_release(r) = r /\ ~(PauseInfo /\ r.state = "PAUSED")
      \/ pause_release(r) = u /\ PauseInfo /\ r.state = "PAUSED"
  BY DEF pause_release
<1> HIDE DEF u
<1> QED
  BY <1>1, <1>2, <1>3

(* A release resumes where the pause stopped.                              *)
LEMMA ReleasePrecise ==
  ASSUME Timely, NEW r, Sound(r), NEW i, NEW c, Precise(r, i, c), NEW j, Taken(i, j)
  PROVE  Precise(pause_release(r), j, c)
<1> DEFINE u == pause_release(r)
<1>0. OnTime(r, i)
  BY DEF Precise
<1>1. OnTime(r, j) /\ (MaxPos < Boundary /\ r.state \notin {"RUNNING", "XRUN"} => j = "none")
  BY <1>0, TakenOnTime
<1>2. /\ SamePointers(r, u)
      /\ \/ u = r /\ ~(PauseInfo /\ r.state = "PAUSED")
         \/ u.state = "RUNNING" /\ PauseInfo /\ r.state = "PAUSED"
  BY ReleaseKeeps DEF Sound
<1> HIDE DEF u
<1>3. CASE u = r
  <2>1. Precise(r, j, c)
    BY <1>1 DEF Precise
  <2> QED
    BY <1>3, <2>1 DEF u
<1>4. CASE u.state = "RUNNING" /\ PauseInfo /\ r.state = "PAUSED"
  <2>1. MaxPos < Boundary /\ j = "none"
    BY <1>1, <1>4, PausesEarly
  <2>2. Tracked(r) /\ Kept(r) /\ Periods(r) /\ (~r.starved => Writing(r, c))
    BY <1>0, <1>4, <2>1 DEF Precise, Follows, pcm_accessible_state, OnTime
  <2>3. Tracked(u)
    BY <1>2, <2>2 DEF SamePointers, SameQueue, Tracked
  <2>4. Kept(u)
    BY <1>2, <2>2 DEF SamePointers, SameQueue, Kept
  <2>5. ~u.starved => Writing(u, c)
    BY <1>2, <2>2 DEF SamePointers, SameQueue, Writing, Even, Room, Filled
  <2>6. Periods(u)
    BY <1>2, <2>2 DEF SamePointers, SameQueue, Periods
  <2>7. OnTime(u, j)
    BY <2>1, <2>6, <1>4 DEF OnTime
  <2>8. Precise(u, j, c)
    BY <1>4, <2>3, <2>4, <2>5, <2>7 DEF Precise, AtStart, Follows
  <2> QED
    BY <2>8 DEF u
<1> QED
  BY <1>2, <1>3, <1>4

(* A drop ends in SETUP, unless nothing was set up yet.                    *)
LEMMA DropKeeps ==
  ASSUME NEW r, Sound(r)
  PROVE  SamePointers(r, snd_pcm_drop(r)) /\ snd_pcm_drop(r).state \in {"OPEN", "SETUP"}
<1> DEFINE s == pause_release(r)
           u == snd_pcm_stop(s, "SETUP")
<1>1. SamePointers(r, s) /\ s \in Runtime
  BY ReleaseKeeps, ReleaseSound DEF Sound
<1>2. snd_pcm_drop(r) = u
  BY DEF snd_pcm_drop
<1> HIDE DEF s
<1>3. SamePointers(s, u) /\ u.state \in {"OPEN", "SETUP"}
  BY <1>1, StopKeeps
<1> HIDE DEF u
<1>4. SamePointers(r, u)
  BY <1>1, <1>3 DEF SamePointers, SameQueue
<1> QED
  BY <1>2, <1>3, <1>4

(* A drop.                                                                 *)
LEMMA DropPrecise ==
  ASSUME NEW r, Sound(r), NEW i, NEW c, Precise(r, i, c), NEW j, Taken(i, j)
  PROVE  Precise(snd_pcm_drop(r), j, c)
<1>1. j # "raised" /\ Kept(r)
  BY DEF Taken, Precise
<1> QED
  BY <1>1, DropKeeps, SettledPrecise

(* A rewound stream is empty and at the beginning.                         *)
LEMMA RewoundPrecise ==
  ASSUME NEW s, Sound(s), NEW c, c.pc \notin {"copy", "commit"}, NEW j, j # "raised"
  PROVE  Precise(Rewound(s), j, c)
<1> DEFINE d == Discard(s)
           u == [d EXCEPT
                   !.state = "PREPARED", !.pos = 0, !.lag = 0, !.hw_ptr = 0,
                   !.hw_ptr_base = 0, !.hw_ptr_interrupt = 0, !.silence_filled = 0,
                   !.appl_ptr = 0]
<1>1. Rewound(s) = u
  BY DEF Rewound
<1>2. d \in Runtime /\ d.queued = 0 /\ d.starved = FALSE
  BY DiscardSound DEF Sound
<1> HIDE DEF d
<1>3. /\ u.state = "PREPARED" /\ u.pos = 0 /\ u.lag = 0 /\ u.hw_ptr = 0 /\ u.hw_ptr_base = 0
      /\ u.hw_ptr_interrupt = 0 /\ u.appl_ptr = 0 /\ u.queued = 0 /\ u.starved = FALSE
  BY <1>2 DEF Runtime
<1> HIDE DEF u
<1>4. Ahead(0, 0, 0) /\ 0 + 0 = 0 /\ 0 <= BufferSize
  BY Sizes, AheadZero
<1>5. Even(u)
  BY <1>3, <1>4 DEF Even
<1>6. Kept(u)
  <2>1. \A k \in 0 .. 0 - 1 : FALSE
    OBVIOUS
  <2> QED
    BY <1>3, <1>4, <2>1 DEF Kept
<1>7. AtStart(u) /\ Follows(u) /\ OnTime(u, j)
  BY <1>3 DEF AtStart, Follows, OnTime
<1>8. Writing(u, c)
  BY <1>5 DEF Writing, Room, Filled
<1> QED
  BY <1>1, <1>6, <1>7, <1>8 DEF Precise

(* A prepare, refused or not.                                              *)
LEMMA PreparePrecise ==
  ASSUME NEW r, Sound(r), NEW i, NEW c, c.pc \notin {"copy", "commit"}, Precise(r, i, c),
         NEW j, Taken(i, j)
  PROVE  Precise(snd_pcm_prepare(r), j, c)
<1>0. j # "raised" /\ OnTime(r, j) /\ Kept(r)
  BY TakenOnTime DEF Precise
<1>1. PICK s : /\ Sound(s) /\ s = (IF r.state = "PAUSED" THEN snd_pcm_drop(r) ELSE r)
               /\ \/ snd_pcm_prepare(r) = s /\ s.state \in {"OPEN", "RUNNING"}
                  \/ snd_pcm_prepare(r) = Rewound(s) /\ s.state \notin {"OPEN", "RUNNING"}
  BY PrepareCases
<1>2. Precise(s, j, c)
  <2>1. CASE s = r
    BY <1>0, <2>1 DEF Precise
  <2>2. CASE s = snd_pcm_drop(r)
    BY <2>2, DropPrecise
  <2> QED
    BY <1>1, <2>1, <2>2
<1>3. Precise(Rewound(s), j, c)
  BY <1>0, <1>1, RewoundPrecise
<1> QED
  BY <1>1, <1>2, <1>3

(* HW_PARAMS clears the area of a stream that does not run.                *)
LEMMA ClearedPrecise ==
  ASSUME NEW r, Sound(r), r.state # "RUNNING", NEW st \in {"SETUP", "OPEN"}, NEW c,
         NEW j, j # "raised"
  PROVE  Precise(Cleared(r, st), j, c)
<1> DEFINE u == Cleared(r, st)
<1>1. u.state = st /\ u.queued = 0
  BY ClearedSound
<1> HIDE DEF u
<1>2. Kept(u)
  <2>1. (\A k \in 0 .. 0 - 1 : FALSE) /\ 0 <= BufferSize
    BY Sizes
  <2> QED
    BY <1>1, <2>1 DEF Kept
<1>3. Precise(u, j, c)
  BY <1>1, <1>2 DEF Precise, AtStart, Follows, OnTime, pcm_accessible_state
<1> QED
  BY <1>3 DEF u

(* Starting a stream that may be started.                                  *)
LEMMA StartedPrecise ==
  ASSUME NEW r, Sound(r), NEW i, NEW c, c.pc \notin {"copy", "commit"}, Precise(r, i, c),
         NEW j, Taken(i, j)
  PROVE  /\ Precise(snd_pcm_start(r), j, c)
         /\ snd_pcm_start(r).lag = r.lag /\ snd_pcm_start(r).queued = r.queued
         /\ snd_pcm_start(r).starved = r.starved
<1> DEFINE u == snd_pcm_start(r)
<1>0. OnTime(r, i)
  BY DEF Precise
<1>1. OnTime(r, j) /\ (MaxPos < Boundary /\ r.state \notin {"RUNNING", "XRUN"} => j = "none")
  BY <1>0, TakenOnTime
<1>2. CASE ~(r.state = "PREPARED" /\ snd_pcm_playback_avail(r) < BufferSize)
  <2>1. u = r
    BY <1>2 DEF snd_pcm_start
  <2>2. Precise(r, j, c)
    BY <1>1 DEF Precise
  <2> HIDE DEF u
  <2> QED
    BY <2>1, <2>2 DEF u
<1>3. CASE r.state = "PREPARED" /\ snd_pcm_playback_avail(r) < BufferSize
  <2>1. AtStart(r) /\ Kept(r) /\ ~r.starved /\ Even(r)
    BY <1>3 DEF Precise, AtStart, pcm_accessible_state, Writing
  <2>2. /\ Sound(u) /\ u.state = "RUNNING" /\ Tracked(u) /\ Kept(u) /\ Even(u)
        /\ Periods(u) /\ u.elapsed = 0 /\ u.lag = r.lag /\ u.queued = r.queued
        /\ u.starved = r.starved
    BY <1>3, <2>1, StartPrecise
  <2> HIDE DEF u
  <2>3. 0 <= u.lag
    BY <2>2, Numbers
  <2>4. OnTime(u, j)
    BY <1>1, <1>3, <2>2, <2>3 DEF OnTime
  <2>5. Precise(u, j, c)
    BY <2>2, <2>4 DEF Precise, AtStart, Follows, Writing, Room, Filled
  <2> QED
    BY <2>2, <2>5 DEF u
<1> QED
  BY <1>2, <1>3

-----------------------------------------------------------------------------
(* Every place is in the ring.                                             *)
LEMMA SlotInRing ==
  ASSUME NEW p \in Int, NEW k \in Int
  PROVE  Slot(p, k) \in Slots
<1> DEFINE x == p + k
<1>1. x \in Int /\ BufferSize \in Nat /\ BufferSize > 0
  BY Sizes
<1> HIDE DEF x
<1>2. x % BufferSize \in 0 .. BufferSize - 1
  BY <1>1
<1> QED
  BY <1>2 DEF Slots, Slot, x

(* The next chunk fits the room that is left.                              *)
LEMMA ChunkPrecise ==
  ASSUME NEW r, NEW i, NEW c, Precise(r, i, c), NEW size, NEW avail,
         pcm_accessible_state(r) /\ ~r.starved => avail + r.lag + r.queued <= BufferSize
  PROVE  Precise(r, i, NextChunk(r, size, avail))
<1> DEFINE d == NextChunk(r, size, avail)
<1>1. d.pc = "idle" \/ (d.pc = "copy" /\ d.avail = avail)
  BY DEF NextChunk, Idle
<1> HIDE DEF d
<1>2. pcm_accessible_state(r) /\ ~r.starved => Writing(r, d)
  BY <1>1 DEF Precise, Writing, Room, Filled
<1> QED
  BY <1>2 DEF Precise, d

(* The copy makes the chunk fresh and touches no queued frame.             *)
LEMMA CopiedPrecise ==
  ASSUME NEW r, Sound(r), NEW i, NEW c \in Calls, c.pc = "copy", ChunkFits(c),
         Precise(r, i, c), NEW j, Taken(i, j), NEW d, d = [c EXCEPT !.pc = "commit"]
  PROVE  Precise(Copied(r, c.frames), j, d)
<1> DEFINE A == [k \in Slots |->
                   IF Offset(k, r.appl_ptr) < c.frames THEN "fresh" ELSE r.dma_area[k]]
           u == [r EXCEPT !.dma_area = A]
<1>1. r \in Runtime /\ Copied(r, c.frames) = u
  BY DEF Sound, Copied, Offset
<1>2. d.pc = "commit" /\ d.frames = c.frames /\ d.avail = c.avail
  BY DEF Calls
<1>3. \A k \in Slots : A[k] = IF Offset(k, r.appl_ptr) < c.frames THEN "fresh"
                              ELSE r.dma_area[k]
  OBVIOUS
<1> HIDE DEF A
<1>4. /\ SameQueue(r, u) /\ u.hw_ptr = r.hw_ptr /\ u.hw_ptr_base = r.hw_ptr_base
      /\ u.hw_ptr_interrupt = r.hw_ptr_interrupt /\ u.lag = r.lag /\ u.elapsed = r.elapsed
      /\ u.silence_filled = r.silence_filled /\ u.dma_area = A /\ u.state = r.state
  BY <1>1 DEF Runtime, SameQueue
<1> HIDE DEF u
<1>5. /\ r.pos \in Int /\ r.appl_ptr \in 0 .. Boundary - 1 /\ r.appl_ptr \in Int
      /\ r.queued \in Nat /\ c.frames \in Nat /\ c.frames <= BufferSize
  BY Numbers, Sizes DEF Calls
<1>6. Follows(u)
  <2>1. Follows(r)
    BY DEF Precise
  <2>2. ASSUME Tracked(r) PROVE Tracked(u)
    BY <1>3, <1>4, <2>2 DEF Tracked, SameQueue
  <2> QED
    BY <1>4, <2>1, <2>2 DEF Follows
<1>7. OnTime(u, j)
  <2>1. OnTime(r, j)
    BY TakenOnTime DEF Precise
  <2> QED
    BY <1>4, <2>1 DEF OnTime, Periods, SameQueue
<1>8. AtStart(u)
  BY <1>4 DEF Precise, AtStart, SameQueue
<1>9. Kept(u)
  <2>1. ASSUME ~r.starved, NEW k \in 0 .. r.queued - 1
        PROVE  u.dma_area[Slot(r.pos, k)] = "fresh"
    <3>1. Slot(r.pos, k) \in Slots
      BY <1>5, SlotInRing
    <3>2. r.dma_area[Slot(r.pos, k)] = "fresh"
      BY <2>1 DEF Precise, Kept
    <3> QED
      BY <1>3, <1>4, <3>1, <3>2
  <2>2. Kept(r)
    BY DEF Precise
  <2> QED
    BY <1>4, <2>1, <2>2 DEF Kept, SameQueue
<1>10. Filled(u, d)
  <2>1. ASSUME NEW k \in 0 .. c.frames - 1
        PROVE  u.dma_area[Slot(r.appl_ptr, k)] = "fresh"
    <3>1. k \in Nat /\ 0 + k < BufferSize /\ 0 + k = k /\ k < c.frames /\ 0 \in Nat
      BY <1>5, Sizes
    <3>2. Ahead(r.appl_ptr, 0, r.appl_ptr)
      BY <1>5, AheadZero
    <3>3. Slot(r.appl_ptr, k) \in Slots /\ Offset(Slot(r.appl_ptr, k), r.appl_ptr) = k
      BY <1>5, <3>1, <3>2, RingAhead
    <3> QED
      BY <1>3, <1>4, <3>1, <3>3
  <2> QED
    BY <1>2, <1>4, <2>1 DEF Filled, SameQueue
<1>11. pcm_accessible_state(u) /\ ~u.starved => Even(u) /\ Room(u, d)
  BY <1>2, <1>4 DEF Precise, Writing, pcm_accessible_state, Even, Room, SameQueue
<1> QED
  BY <1>1, <1>6, <1>7, <1>8, <1>9, <1>10, <1>11 DEF Precise, Writing

(* The card is at the beginning of the queue, of which appl_ptr is the end.*)
LEMMA QueueEnds ==
  ASSUME NEW r, Sound(r), NEW i, NEW c, Precise(r, i, c), pcm_accessible_state(r), ~r.starved
  PROVE  Ahead(r.pos, r.queued, r.appl_ptr)
<1>1. Ahead(r.hw_ptr, r.lag, r.pos)
  <2>1. CASE r.state = "PREPARED"
    <3>1. r.pos = 0 /\ r.lag = 0 /\ r.hw_ptr = 0
      BY <2>1 DEF Precise, AtStart
    <3>2. Ahead(0, 0, 0)
      BY Sizes, AheadZero
    <3> QED
      BY <3>1, <3>2
  <2>2. CASE r.state \in {"RUNNING", "PAUSED"}
    BY <2>2 DEF Precise, Follows, Tracked
  <2> QED
    BY <2>1, <2>2 DEF pcm_accessible_state
<1>2. Ahead(r.hw_ptr, r.lag + r.queued, r.appl_ptr)
  BY DEF Precise, Writing, Even
<1>3. r.hw_ptr \in Int /\ r.lag \in Int /\ r.queued \in Int
  BY Numbers
<1> QED
  BY <1>1, <1>2, <1>3, AheadPlus

(* The commit adds the chunk, which is in the ring, to the queue.          *)
LEMMA CommittedPrecise ==
  ASSUME Base, call.pc = "commit", Precise(rt, irq, call), pcm_accessible_state(rt),
         NEW j, OnTime(rt, j), NEW d, d.pc \notin {"copy", "commit"}
  PROVE  /\ Precise(Committed, j, d)
         /\ ~rt.starved =>
               (call.avail - call.frames) + Committed.lag + Committed.queued <= BufferSize
<1> DEFINE r == rt
           c == call
           u == Committed
           f == c.frames
<1>1. Sound(r) /\ c \in Calls /\ ChunkFits(c)
  BY DEF Base
<1>2. /\ Sound(u) /\ u.state = r.state /\ u.appl_ptr = (r.appl_ptr + f) % Boundary
      /\ u.queued = (IF r.starved THEN r.queued ELSE r.queued + f)
      /\ u.hw_ptr = r.hw_ptr /\ u.hw_ptr_base = r.hw_ptr_base
      /\ u.hw_ptr_interrupt = r.hw_ptr_interrupt /\ u.elapsed = r.elapsed
      /\ u.silence_filled = r.silence_filled /\ u.dma_area = r.dma_area /\ u.pos = r.pos
      /\ u.lag = r.lag /\ u.starved = r.starved
  BY CommittedSound
<1>3. /\ r.pos \in Int /\ r.appl_ptr \in Int /\ r.hw_ptr \in Int /\ r.lag \in Nat
      /\ r.queued \in Nat /\ f \in Nat /\ c.avail \in Nat /\ f <= c.avail
      /\ BufferSize \in Nat /\ r.starved \in BOOLEAN
  BY <1>1, Numbers, Sizes DEF Calls, ChunkFits
<1>4. Precise(r, irq, c) /\ pcm_accessible_state(r) /\ c.pc = "commit" /\ OnTime(r, j)
  OBVIOUS
<1> HIDE DEF r, u, c, f
<1>5. Follows(u)
  <2>1. ASSUME Tracked(r) PROVE Tracked(u)
    BY <1>2, <2>1 DEF Tracked
  <2> QED
    BY <1>2, <1>4, <2>1 DEF Precise, Follows
<1>6. OnTime(u, j)
  BY <1>2, <1>4 DEF OnTime, Periods
<1>7. AtStart(u)
  BY <1>2, <1>4 DEF Precise, AtStart
<1>8. CASE r.starved
  <2>1. u.starved
    BY <1>2, <1>8, Zenon
  <2>2. Kept(u)
    BY <2>1 DEF Kept
  <2>3. Precise(u, j, d)
    BY <1>5, <1>6, <1>7, <2>1, <2>2 DEF Precise
  <2> QED
    BY <1>8, <2>3 DEF u, r
<1>9. CASE ~r.starved
  <2>0. ~u.starved
    BY <1>2, <1>9, Zenon
  <2>1. u.queued = r.queued + f
    BY <1>2, <1>9
  <2>2. Even(r) /\ Room(r, c) /\ Filled(r, c) /\ Kept(r)
    BY <1>4, <1>9 DEF Precise, Writing
  <2>3. c.avail + r.lag + r.queued <= BufferSize
    BY <1>4, <2>2 DEF Room
  <2>4. Ahead(r.appl_ptr, f, u.appl_ptr)
    BY <1>2 DEF Ahead
  <2>5. Even(u)
    <3> DEFINE l == r.lag + r.queued
    <3>1. l \in Int /\ f \in Int /\ Ahead(r.hw_ptr, l, r.appl_ptr)
      BY <1>3, <2>2 DEF Even
    <3>2. u.lag + u.queued = l + f /\ l + f <= BufferSize
      BY <1>2, <1>3, <2>1, <2>3
    <3> HIDE DEF l
    <3>3. Ahead(r.hw_ptr, l + f, u.appl_ptr)
      BY <1>3, <2>4, <3>1, AheadPlus
    <3> QED
      BY <1>2, <3>2, <3>3 DEF Even
  <2>6. Ahead(r.pos, r.queued, r.appl_ptr)
    BY <1>1, <1>4, <1>9, QueueEnds DEF r, c
  <2>7. ASSUME NEW k \in 0 .. u.queued - 1 PROVE u.dma_area[Slot(u.pos, k)] = "fresh"
    <3>1. CASE k < r.queued
      <4>1. k \in 0 .. r.queued - 1
        BY <1>3, <3>1
      <4>2. r.dma_area[Slot(r.pos, k)] = "fresh"
        BY <1>9, <2>2, <4>1 DEF Kept
      <4> QED
        BY <1>2, <4>2
    <3>2. CASE ~(k < r.queued)
      <4> DEFINE m == k - r.queued
      <4>1. m \in 0 .. f - 1 /\ m \in Int /\ r.queued + m = k /\ r.queued \in Int
        BY <1>3, <2>1, <3>2
      <4> HIDE DEF m
      <4>2. Slot(r.appl_ptr, m) = Slot(r.pos, r.queued + m)
        BY <1>3, <2>6, <4>1, SlotPlus
      <4>3. r.dma_area[Slot(r.appl_ptr, m)] = "fresh"
        BY <1>4, <2>2, <4>1 DEF Filled, f
      <4> QED
        BY <1>2, <4>1, <4>2, <4>3
    <3> QED
      BY <3>1, <3>2
  <2>8. u.queued <= BufferSize /\ (c.avail - f) + u.lag + u.queued <= BufferSize
    BY <1>2, <1>3, <2>1, <2>3
  <2>9. Kept(u)
    BY <2>7, <2>8 DEF Kept
  <2>10. Writing(u, d)
    BY <2>5 DEF Writing, Room, Filled
  <2>11. Precise(u, j, d)
    BY <1>5, <1>6, <1>7, <2>9, <2>10 DEF Precise
  <2> QED
    BY <2>8, <2>11 DEF u, r, c, f
<1> QED
  BY <1>3, <1>8, <1>9

(* The state is left, or the stream stops in XRUN.                         *)
LEMMA UpdateStatePrecise ==
  ASSUME NEW r, Sound(r), NEW i, NEW c, Precise(r, i, c), i # "raised"
  PROVE  Precise(snd_pcm_update_state(r), i, c)
<1> DEFINE u == snd_pcm_stop(r, "XRUN")
<1>1. SamePointers(r, u) /\ u.state \in {"OPEN", "XRUN"}
  BY StopKeeps DEF Sound
<1>2. Kept(r)
  BY DEF Precise
<1>3. snd_pcm_update_state(r) \in {r, u}
  BY DEF snd_pcm_update_state
<1> HIDE DEF u
<1>4. Precise(u, i, c)
  BY <1>1, <1>2, SettledPrecise
<1> QED
  BY <1>3, <1>4

(* The inductive invariant: the pointers of a handle that is not reused,   *)
(* which is never closed by a reset.                                       *)
Exactly ==
    ~reused => /\ Precise(rt, irq, call)
               /\ call.pc \notin {"do_reset", "post_reset", "close_prepare"}

(* A handle that was just opened.                                          *)
LEMMA InitExactly == Init => Exactly
<1> SUFFICES ASSUME Init PROVE Precise(rt, irq, call) /\ call.pc = "idle"
  BY DEF Exactly
<1>1. rt.state = "OPEN" /\ rt.queued = 0 /\ irq = "none" /\ call.pc = "idle"
  BY FreshSound DEF Init, Idle
<1>2. Kept(rt)
  <2>1. (\A k \in 0 .. 0 - 1 : FALSE) /\ 0 <= BufferSize
    BY Sizes
  <2> QED
    BY <1>1, <2>1 DEF Kept
<1> QED
  BY <1>1, <1>2 DEF Precise, AtStart, Follows, OnTime, pcm_accessible_state

(* What a section does to the interrupt flag.                              *)
LEMMA SectionTaken == ASSUME Base, NEW pc, Section(pc)
                      PROVE  Taken(irq, irq') /\ call.pc = pc /\ reused' = reused
BY DEF Base, Section, Taken

(* A section of a call that left the pointers right.                       *)
LEMMA CallExactly ==
  ASSUME Precise(rt', irq', call'), call'.pc \notin {"do_reset", "post_reset", "close_prepare"}
  PROVE  Exactly'
BY DEF Exactly

(* The last step of a write.                                               *)
LEMMA CommitExactly ==
  ASSUME Base, Precise(rt, irq, call), XferCommit
  PROVE  Exactly'
<1> DEFINE r == Committed
           s == IF snd_pcm_playback_hw_avail(r) >= 1 THEN snd_pcm_start(r) ELSE r
           left == call.size - call.frames
           rest == call.avail - call.frames
           w == rt'
           j == irq'
           d == call'
<1>1. Taken(irq, j) /\ call.pc = "commit" /\ Section("commit")
  BY SectionTaken DEF XferCommit
<1>2. OnTime(rt, irq) /\ OnTime(rt, j) /\ j # "raised"
  BY <1>1, TakenOnTime DEF Precise
<1>3. \/ ~pcm_accessible_state(rt) /\ w = rt /\ d = Idle
      \/ pcm_accessible_state(rt) /\ w = snd_pcm_update_state(s) /\ d = Idle
      \/ pcm_accessible_state(rt) /\ w = s /\ d = NextChunk(s, left, rest)
  BY DEF XferCommit, Return
<1>4. Idle.pc = "idle" /\ Idle.pc \notin {"copy", "commit"}
  BY DEF Idle
<1>5. Sound(r) /\ r.starved = rt.starved
  BY CommittedSound
<1>6. CASE ~pcm_accessible_state(rt)
  <2> HIDE DEF j, w, d
  <2>1. Precise(rt, j, Idle)
    BY <1>2, <1>6 DEF Precise
  <2>2. Precise(w, j, d) /\ d.pc = "idle"
    BY <1>3, <1>4, <1>6, <2>1
  <2> QED
    BY <2>2, CallExactly DEF w, j, d
<1>7. CASE pcm_accessible_state(rt)
  <2>1. /\ Precise(r, irq, Idle) /\ Precise(r, j, Idle)
        /\ ~rt.starved => rest + r.lag + r.queued <= BufferSize
    <3> HIDE DEF j, r
    <3> QED
      BY <1>1, <1>2, <1>4, <1>7, CommittedPrecise DEF r
  <2> HIDE DEF r, j, w, d
  <2>2. /\ Precise(s, j, Idle) /\ s.lag = r.lag /\ s.queued = r.queued
        /\ s.starved = r.starved /\ Sound(s)
    BY <1>1, <1>4, <1>5, <2>1, StartedPrecise, StartSound
  <2> HIDE DEF s, rest, left
  <2>3. Precise(snd_pcm_update_state(s), j, Idle)
    BY <1>2, <2>2, UpdateStatePrecise
  <2>4. Precise(s, j, NextChunk(s, left, rest))
    <3>1. ~s.starved => rest + s.lag + s.queued <= BufferSize
      BY <1>5, <2>1, <2>2
    <3> QED
      BY <2>2, <3>1, ChunkPrecise
  <2>5. NextChunk(s, left, rest).pc \in {"idle", "copy"}
    BY DEF NextChunk, Idle
  <2>6. Precise(w, j, d) /\ d.pc \in {"idle", "copy"}
    BY <1>3, <1>4, <1>7, <2>3, <2>4, <2>5
  <2> QED
    BY <2>6, CallExactly DEF w, j, d
<1> QED
  BY <1>6, <1>7

(* The beginning of a write.                                               *)
LEMMA BeginExactly ==
  ASSUME Timely, Base, Precise(rt, irq, call), XferBegin
  PROVE  Exactly'
<1> DEFINE r == snd_pcm_update_hw_ptr(rt)
           a == snd_pcm_playback_avail(r)
           w == rt'
           j == irq'
           d == call'
<1>1. /\ Taken(irq, j) /\ call.pc = "write"
      /\ \/ pcm_accessible_state(rt) /\ w = r /\ d = NextChunk(r, call.size, a)
         \/ ~pcm_accessible_state(rt) /\ w = rt /\ d = Idle
  BY SectionTaken DEF XferBegin, Return
<1>2. OnTime(rt, j)
  BY <1>1, TakenOnTime DEF Precise
<1>3. Sound(r) /\ Precise(r, j, call)
  <2> HIDE DEF j
  <2> QED
    BY <1>1, UpdateHwSound, UpdatePrecise DEF Base
<1> HIDE DEF r, w, j, d
<1>4. pcm_accessible_state(r) /\ ~r.starved => a + r.lag + r.queued <= BufferSize
  <2>1. ASSUME pcm_accessible_state(r), ~r.starved PROVE Even(r)
    BY <1>3, <2>1 DEF Precise, Writing
  <2>2. r.lag \in Int /\ r.queued \in Int /\ BufferSize \in Int
    BY <1>3, Numbers, Sizes
  <2>3. ASSUME Even(r) PROVE a + r.lag + r.queued <= BufferSize
    BY <1>3, <2>2, <2>3, AvailIs
  <2> QED
    BY <2>1, <2>3
<1> HIDE DEF a
<1>5. Precise(r, j, NextChunk(r, call.size, a))
  BY <1>3, <1>4, ChunkPrecise
<1>6. Idle.pc = "idle" /\ NextChunk(r, call.size, a).pc \in {"idle", "copy"}
  BY DEF NextChunk, Idle
<1>7. ASSUME ~pcm_accessible_state(rt) PROVE Precise(rt, j, Idle)
  BY <1>2, <1>7 DEF Precise
<1>8. Precise(w, j, d) /\ d.pc \in {"idle", "copy"}
  BY <1>1, <1>5, <1>6, <1>7
<1> QED
  BY <1>8, CallExactly DEF w, j, d

(* A write into a buffer that is not full, or after an underrun.           *)
LEMMA AddBufferExactly ==
  ASSUME Timely, Base, Precise(rt, irq, call), NEW n \in ReqSizes, OSS32_WaveAddBuffer(n)
  PROVE  Exactly'
<1> DEFINE r == snd_pcm_update_hw_ptr(rt)
           size == IF rt.state = "OPEN" THEN 0 ELSE Least(n, snd_pcm_playback_avail(r))
           pc == IF rt.state = "XRUN" THEN "prepare" ELSE "write"
           e == [Idle EXCEPT !.size = size, !.pc = pc]
           w == rt'
           j == irq'
           d == call'
<1>1. Taken(irq, j) /\ w = r /\ d \in {Idle, e}
  BY SectionTaken DEF OSS32_WaveAddBuffer
<1>2. Precise(r, j, call)
  <2> HIDE DEF j
  <2> QED
    BY <1>1, UpdatePrecise DEF Base
<1>3. pc \in {"prepare", "write"}
  OBVIOUS
<1> HIDE DEF r, size, pc
<1>4. Idle.pc = "idle" /\ e.pc = pc
  BY DEF Idle
<1> HIDE DEF w, j, d, e
<1>5. d.pc \in {"idle", "prepare", "write"}
  BY <1>1, <1>3, <1>4
<1>6. Precise(w, j, d)
  BY <1>1, <1>2, <1>5, NoChunk
<1> QED
  BY <1>5, <1>6, CallExactly DEF w, j, d

(* HW_PARAMS, with the prepare of its second try.                          *)
LEMMA HwParamsExactly ==
  ASSUME Base, Precise(rt, irq, call), OSS32_WaveSetHwParams
  PROVE  Exactly'
<1> DEFINE w == rt'
           j == irq'
<1>1. Taken(irq, j) /\ call.pc = "idle" /\ call' = call
  BY SectionTaken DEF OSS32_WaveSetHwParams
<1>2. OnTime(rt, j) /\ j # "raised"
  BY <1>1, TakenOnTime DEF Precise
<1>3. PICK a : /\ a = (IF rt.state \in {"OPEN", "SETUP", "PREPARED"} THEN rt
                       ELSE snd_pcm_prepare(rt))
               /\ Sound(a)
               /\ \/ a.state = "RUNNING" /\ w = a
                  \/ /\ a.state # "RUNNING"
                     /\ \E st \in {"SETUP", "OPEN"} : w = Cleared(a, st)
  BY HwParamsCases
<1> HIDE DEF w, j
<1>4. Precise(a, j, call)
  <2>1. Precise(rt, j, call)
    BY <1>2 DEF Precise
  <2>2. Precise(snd_pcm_prepare(rt), j, call)
    BY <1>1, PreparePrecise DEF Base
  <2> QED
    BY <1>3, <2>1, <2>2
<1>5. Precise(w, j, call)
  BY <1>2, <1>3, <1>4, ClearedPrecise
<1>6. Precise(rt', irq', call')
  BY <1>1, <1>5 DEF w, j
<1> QED
  BY <1>1, <1>6, CallExactly

(* Every step keeps the pointers of a handle that is not reused right.     *)
LEMMA StepExactly == ASSUME Timely PROVE Base /\ Exactly /\ [Next]_vars => Exactly'
<1> SUFFICES ASSUME Base, Exactly, [Next]_vars PROVE Exactly'
  OBVIOUS
<1>0. CASE reused
  <2>1. reused' = reused
    BY DEF Next, Control, CallSection, vars, DmaFrame, snd_pcm_period_elapsed, snd_pcm_stop_xrun,
           OSS32_WavePrepare, OSS32_WaveStart, OSS32_WaveStop, OSS32_WavePause,
           OSS32_WaveResume, OSS32_WaveGetStatus, OSS32_WaveSetHwParams, snd_pcm_release,
           OSS32_WaveClose, OSS32_WaveAddBuffer, CloseDoReset, ClosePostReset, ClosePrepare,
           AddBufferPrepare, XferBegin, XferCopy, XferCommit, XferStartFails, Call, Section
  <2> QED
    BY <1>0, <2>1 DEF Exactly
<1> SUFFICES ASSUME ~reused PROVE Exactly'
  BY <1>0 DEF Base
<1> DEFINE w == rt'
           j == irq'
<1>1. /\ Precise(rt, irq, call) /\ Sound(rt) /\ call \in Calls /\ ChunkFits(call)
      /\ call.pc \notin {"do_reset", "post_reset", "close_prepare"}
  BY DEF Exactly, Base
(* A call of one section.                                                  *)
<1>2. ASSUME Section("idle"), UNCHANGED call,
             Taken(irq, j) /\ call.pc \notin {"copy", "commit"} => Precise(w, j, call)
      PROVE  Exactly'
  <2>1. Taken(irq, j) /\ call.pc = "idle"
    BY <1>2, SectionTaken
  <2>2. Precise(rt', irq', call')
    BY <1>2, <2>1
  <2> QED
    BY <1>2, <2>1, <2>2, CallExactly
<1>3. CASE DmaFrame
  <2>1. Precise(w, j, call) /\ call' = call
    BY <1>1, <1>3, PlayedPrecise DEF DmaFrame
  <2> QED
    BY <1>1, <2>1, CallExactly
<1>4. CASE snd_pcm_period_elapsed
  <2>1. /\ irq # "none" /\ j = "none" /\ call' = call
        /\ w = IF snd_pcm_running(rt) THEN snd_pcm_update_hw_ptr0(rt, TRUE) ELSE rt
    BY <1>4 DEF snd_pcm_period_elapsed
  <2> HIDE DEF w, j
  <2>2. Precise(w, j, call)
    BY <1>1, <2>1, ElapsedPrecise
  <2> QED
    BY <1>1, <2>1, <2>2, CallExactly DEF w, j
<1>5. CASE snd_pcm_stop_xrun
  <2>1. /\ w = snd_pcm_stop(rt, "XRUN") /\ j = irq /\ call' = call /\ rt.state = "RUNNING"
    BY <1>5 DEF snd_pcm_stop_xrun, snd_pcm_running
  <2> HIDE DEF w, j
  <2>2. SamePointers(rt, w) /\ w.state = "XRUN" /\ Kept(rt)
    BY <1>1, <2>1, StopKeeps DEF Sound, Precise
  <2>3. Precise(w, j, call)
    BY <2>2, SettledPrecise
  <2> QED
    BY <1>1, <2>1, <2>3, CallExactly DEF w, j
<1>6. CASE OSS32_WavePrepare
  <2>1. Section("idle") /\ w = snd_pcm_prepare(rt) /\ UNCHANGED call
    BY <1>6 DEF OSS32_WavePrepare, Call
  <2>2. ASSUME Taken(irq, j), call.pc \notin {"copy", "commit"}
        PROVE  Precise(snd_pcm_prepare(rt), j, call)
    BY <1>1, <2>2, PreparePrecise
  <2> QED
    BY <1>2, <2>1, <2>2
<1>7. CASE OSS32_WaveStart
  <2>1. Section("idle") /\ w = snd_pcm_start(rt) /\ UNCHANGED call
    BY <1>7 DEF OSS32_WaveStart, Call
  <2>2. ASSUME Taken(irq, j), call.pc \notin {"copy", "commit"}
        PROVE  Precise(snd_pcm_start(rt), j, call)
    BY <1>1, <2>2, StartedPrecise
  <2> QED
    BY <1>2, <2>1, <2>2
<1>8. CASE OSS32_WaveStop
  <2>1. Section("idle") /\ w = snd_pcm_drop(rt) /\ UNCHANGED call
    BY <1>8 DEF OSS32_WaveStop, Call
  <2>2. ASSUME Taken(irq, j) PROVE Precise(snd_pcm_drop(rt), j, call)
    BY <1>1, <2>2, DropPrecise
  <2> QED
    BY <1>2, <2>1, <2>2
<1>9. CASE OSS32_WavePause
  <2>1. Section("idle") /\ w = pause_release(rt) /\ UNCHANGED call
    BY <1>9 DEF OSS32_WavePause, Call
  <2>2. ASSUME Taken(irq, j) PROVE Precise(pause_release(rt), j, call)
    BY <1>1, <2>2, ReleasePrecise
  <2> QED
    BY <1>2, <2>1, <2>2
<1>10. CASE OSS32_WaveResume
  <2>1. Section("idle") /\ w \in {pause_push(rt), pause_refused(rt)} /\ UNCHANGED call
    BY <1>10 DEF OSS32_WaveResume, Call
  <2>2. ASSUME Taken(irq, j)
        PROVE  Precise(pause_push(rt), j, call) /\ Precise(pause_refused(rt), j, call)
    BY <1>1, <2>2, PushPrecise
  <2> QED
    BY <1>2, <2>1, <2>2
<1>11. CASE OSS32_WaveGetStatus
  <2>1. Section("idle") /\ w = snd_pcm_update_hw_ptr(rt) /\ UNCHANGED call
    BY <1>11 DEF OSS32_WaveGetStatus, Call
  <2>2. ASSUME Taken(irq, j) PROVE Precise(snd_pcm_update_hw_ptr(rt), j, call)
    BY <1>1, <2>2, UpdatePrecise
  <2> QED
    BY <1>2, <2>1, <2>2
<1>12. CASE OSS32_WaveSetHwParams
  BY <1>1, <1>12, HwParamsExactly
<1>13. CASE snd_pcm_release
  <2>1. Section("idle") /\ rt' = Fresh0 /\ UNCHANGED call
    BY <1>13 DEF snd_pcm_release
  <2>2. w.state = "OPEN" /\ w.queued = 0
    BY <2>1, FreshSound
  <2>3. Kept(w)
    <3>1. (\A k \in 0 .. 0 - 1 : FALSE) /\ 0 <= BufferSize
      BY Sizes
    <3> HIDE DEF w
    <3> QED
      BY <2>2, <3>1 DEF Kept
  <2>4. ASSUME Taken(irq, j) PROVE Precise(w, j, call)
    <3>1. j # "raised"
      BY <2>4 DEF Taken
    <3> HIDE DEF w, j
    <3> QED
      BY <2>2, <2>3, <3>1 DEF Precise, AtStart, Follows, OnTime, pcm_accessible_state
  <2> QED
    BY <1>2, <2>1, <2>4
<1>14. CASE OSS32_WaveClose
  BY <1>14 DEF OSS32_WaveClose
<1>15. ASSUME NEW n \in ReqSizes, OSS32_WaveAddBuffer(n) PROVE Exactly'
  BY <1>1, <1>15, AddBufferExactly
<1>16. CASE CloseDoReset \/ ClosePostReset \/ ClosePrepare
  BY <1>1, <1>16 DEF CloseDoReset, ClosePostReset, ClosePrepare, Section
<1>17. CASE AddBufferPrepare
  <2>1. Taken(irq, j) /\ call.pc = "prepare" /\ w = snd_pcm_prepare(rt)
        /\ call' = [call EXCEPT !.pc = "write"]
    BY <1>17, SectionTaken DEF AddBufferPrepare, Goto
  <2>2. call'.pc = "write"
    BY <1>1, <2>1 DEF Calls
  <2>3. Precise(snd_pcm_prepare(rt), j, call)
    BY <1>1, <2>1, PreparePrecise
  <2> DEFINE d == call'
  <2> HIDE DEF w, j, d
  <2>4. d.pc = "write"
    BY <2>2 DEF d
  <2>5. Precise(w, j, d)
    BY <2>1, <2>3, <2>4, NoChunk
  <2> QED
    BY <2>2, <2>5, CallExactly DEF w, j, d
<1>18. CASE XferBegin
  BY <1>1, <1>18, BeginExactly
<1>19. CASE XferCopy
  <2>1. Taken(irq, j) /\ call.pc = "copy" /\ call' = [call EXCEPT !.pc = "commit"]
    BY <1>19, SectionTaken DEF XferCopy, Goto
  <2>2. w = Copied(rt, call.frames)
    BY <1>19, CopyIs
  <2>3. call'.pc = "commit"
    BY <1>1, <2>1 DEF Calls
  <2> DEFINE d == call'
  <2> HIDE DEF w, j, d
  <2>4. d = [call EXCEPT !.pc = "commit"]
    BY <2>1 DEF d
  <2>5. Precise(w, j, d)
    BY <1>1, <2>1, <2>2, <2>4, CopiedPrecise
  <2> QED
    BY <2>3, <2>5, CallExactly DEF w, j, d
<1>20. CASE XferCommit
  BY <1>1, <1>20, CommitExactly
<1>21. CASE XferStartFails
  <2>1. /\ Taken(irq, j) /\ call.pc = "commit" /\ rt.state = "PREPARED"
        /\ rt' = Committed /\ call' = Idle
    BY <1>21, SectionTaken DEF XferStartFails, Return
  <2>2. OnTime(rt, j)
    BY <1>1, <2>1, TakenOnTime DEF Precise
  <2>3. Idle.pc = "idle"
    BY DEF Idle
  <2> HIDE DEF j
  <2>4. Precise(Committed, j, Idle)
    BY <1>1, <2>1, <2>2, <2>3, CommittedPrecise DEF pcm_accessible_state
  <2> QED
    BY <2>1, <2>3, <2>4, CallExactly DEF j
<1>22. CASE UNCHANGED vars
  BY <1>22 DEF vars, Exactly
<1> QED
  BY <1>3, <1>4, <1>5, <1>6, <1>7, <1>8, <1>9, <1>10, <1>11, <1>12, <1>13, <1>14, <1>15,
     <1>16, <1>17, <1>18, <1>19, <1>20, <1>21, <1>22 DEF Next, Control, CallSection

(* Both invariants, in every state.                                        *)
LEMMA ExactlyInvariant == ASSUME Timely PROVE Spec => [](Base /\ Exactly)
<1>1. Init => Base /\ Exactly
  BY InitBase, InitExactly
<1>2. Base /\ Exactly /\ [Next]_vars => Base' /\ Exactly'
  BY StepBase, StepExactly
<1> QED
  BY <1>1, <1>2, PTL DEF Spec

(* snd_pcm_update_hw_ptr0 reconstructs the number of frames that the card  *)
(* played, over any number of buffers and across the boundary.             *)
THEOREM PcmHwPtrExact == ASSUME Timely PROVE Spec => []HwPtrExact
<1>1. Base /\ Exactly => HwPtrExact
  <2> SUFFICES ASSUME Base, Exactly PROVE HwPtrExact
    OBVIOUS
  <2>1. TypeOK
    BY DEF Base, Sound, Runtime, States, Calls, TypeOK
  <2>2. ASSUME ~reused, rt.state \in {"RUNNING", "PAUSED"}
        PROVE  (rt.hw_ptr + rt.lag) % Boundary = rt.pos
    BY <2>2 DEF Exactly, Precise, Follows, Tracked, Ahead
  <2> QED
    BY <2>1, <2>2 DEF HwPtrExact
<1> QED
  BY <1>1, ExactlyInvariant, PTL

(* snd_pcm_playback_avail is exactly the room that the queue leaves, less  *)
(* what was played since the last update.                                  *)
THEOREM PcmAvailExact == ASSUME Timely PROVE Spec => []AvailExact
<1>1. Base /\ Exactly => AvailExact
  <2> SUFFICES ASSUME Base, Exactly, ~reused, ~rt.starved, pcm_accessible_state(rt)
               PROVE  snd_pcm_playback_avail(rt) + rt.lag + rt.queued = BufferSize
    BY DEF AvailExact
  <2>1. Sound(rt) /\ Even(rt)
    BY DEF Base, Exactly, Precise, Writing
  <2>2. snd_pcm_playback_avail(rt) = BufferSize - (rt.lag + rt.queued)
    BY <2>1, AvailIs
  <2>3. rt.lag \in Int /\ rt.queued \in Int /\ BufferSize \in Int
    BY <2>1, Numbers, Sizes
  <2> QED
    BY <2>2, <2>3
<1> QED
  BY <1>1, ExactlyInvariant, PTL

(* No silence and no later chunk is written over a frame that was accepted *)
(* and not played, and no more is accepted than the buffer holds.          *)
THEOREM PcmQueueIntact == ASSUME Timely PROVE Spec => []QueueIntact
<1>1. Exactly => QueueIntact
  BY DEF Exactly, Precise, Kept, Slot, QueueIntact
<1> QED
  BY <1>1, ExactlyInvariant, PTL

(* The card never plays an old frame a second time.                        *)
THEOREM PcmNoReplay == ASSUME Timely PROVE Spec => NoReplay
<1>1. ASSUME Base, Exactly, DmaFrame, ~reused
      PROVE  rt.dma_area[rt.pos % BufferSize] # "old"
  <2>1. Sound(rt) /\ rt.state = "RUNNING"
    BY <1>1 DEF Base, Sound, DmaFrame
  <2>2. Tracked(rt)
    BY <1>1, <2>1 DEF Exactly, Precise, Follows
  <2>3. /\ rt.lag \in Nat /\ rt.lag + 0 < BufferSize /\ rt.lag + 0 = rt.lag
        /\ rt.pos + 0 = rt.pos /\ ~(rt.lag < rt.lag) /\ 0 \in Nat
    BY <2>1, Numbers
  <2>4. Slot(rt.pos, 0) \in Slots /\ Offset(Slot(rt.pos, 0), rt.hw_ptr) = rt.lag
    BY <2>1, <2>2, <2>3, QueueOffset
  <2>5. rt.dma_area[Slot(rt.pos, 0)] # "old"
    BY <2>2, <2>3, <2>4 DEF Tracked
  <2> QED
    BY <2>3, <2>5 DEF Slot
<1>2. Base /\ Exactly =>
        [DmaFrame /\ ~reused => rt.dma_area[rt.pos % BufferSize] # "old"]_vars
  BY <1>1
<1> QED
  BY <1>2, ExactlyInvariant, PTL DEF NoReplay

-----------------------------------------------------------------------------
(***************************************************************************)
(* The stream with the frames of its client implements Playback.           *)
(*                                                                         *)
(* The steps of the control are sorted by what they do to the queue: they  *)
(* leave it (Quiet), forget it (Emptied), start it or append a chunk.      *)
(* Carried is what the frames add to Base and Exactly: a chunk has its     *)
(* place behind the queue until it is copied, its frames are there until   *)
(* it is committed, and a fresh frame is in the queue or in the chunk, so  *)
(* that behind them the card finds silence.                                *)
(***************************************************************************)
(* A step that leaves the queue where it is: nothing becomes fresh, and    *)
(* the stream goes on as it was, pauses or resumes, or is off.             *)
Quiet(r, u) ==
    /\ SameQueue(r, u)
    /\ \A k \in Slots : u.dma_area[k] = "fresh" => r.dma_area[k] = "fresh"
    /\ \/ u.state = r.state
       \/ u.state \in {"OPEN", "SETUP", "XRUN"}
       \/ u.state \in {"RUNNING", "PAUSED"} /\ r.state \in {"RUNNING", "PAUSED"}

(* A step that forgets the queue.                                          *)
Emptied(r, u) ==
    /\ u.queued = 0 /\ u.state \in {"OPEN", "SETUP", "PREPARED"}
    /\ u.starved = FALSE \/ (u.starved = r.starved /\ u.state # "PREPARED")

(* A step that does nothing to the runtime.                                *)
LEMMA QuietSame == ASSUME NEW r PROVE Quiet(r, r)
BY DEF Quiet, SameQueue

(* A stop.                                                                 *)
LEMMA QuietStop ==
  ASSUME NEW r, NEW u, SamePointers(r, u), u.state \in {"OPEN", "SETUP", "XRUN"}
  PROVE  Quiet(r, u)
BY DEF Quiet, SamePointers

(* An update that follows the card writes nothing but silence.             *)
LEMMA QuietUpdated ==
  ASSUME NEW r, NEW u, Updated(r, u), r.state = "RUNNING",
         u.state \in {"RUNNING", "XRUN"}
  PROVE  Quiet(r, u)
BY DEF Quiet, Updated, Silenced

(* The update of a running stream, in the interrupt or in a call.          *)
LEMMA QuietInterrupt ==
  ASSUME Timely, NEW r, Sound(r), NEW i, NEW c, Precise(r, i, c),
         NEW in \in BOOLEAN, in => i # "none", r.state = "RUNNING"
  PROVE  Quiet(r, snd_pcm_update_hw_ptr0(r, in))
<1> DEFINE u == snd_pcm_update_hw_ptr0(r, in)
<1>1. Tracked(r) /\ OnTime(r, i)
  BY DEF Precise, Follows
<1>2. Updated(r, u)
  BY <1>1, UpdateExact
<1>3. u.state \in {"RUNNING", "XRUN"}
  BY UpdateSound
<1> HIDE DEF u
<1>4. Quiet(r, u)
  BY <1>2, <1>3, QuietUpdated
<1> QED
  BY <1>4 DEF u

(* The update within a call, which does nothing to a stream that is off.   *)
LEMMA QuietUpdate ==
  ASSUME Timely, NEW r, Sound(r), NEW i, NEW c, Precise(r, i, c)
  PROVE  /\ Quiet(r, snd_pcm_update_hw_ptr(r))
         /\ r.state = "RUNNING" => snd_pcm_update_hw_ptr(r).state \in {"RUNNING", "XRUN"}
<1>1. CASE r.state = "RUNNING"
  <2>1. snd_pcm_update_hw_ptr(r) = snd_pcm_update_hw_ptr0(r, FALSE)
    BY <1>1 DEF snd_pcm_update_hw_ptr, snd_pcm_running
  <2>2. snd_pcm_update_hw_ptr0(r, FALSE).state \in {"RUNNING", "XRUN"}
    BY <1>1, UpdateSound
  <2> QED
    BY <1>1, <2>1, <2>2, QuietInterrupt
<1>2. CASE r.state # "RUNNING"
  <2>1. snd_pcm_update_hw_ptr(r) = r
    BY <1>2 DEF snd_pcm_update_hw_ptr, snd_pcm_running
  <2> QED
    BY <1>2, <2>1, QuietSame
<1> QED
  BY <1>1, <1>2

(* The pause, and the one that the card refuses.                           *)
LEMMA QuietPush ==
  ASSUME Timely, NEW r, Sound(r), NEW i, NEW c, Precise(r, i, c)
  PROVE  Quiet(r, pause_push(r)) /\ Quiet(r, pause_refused(r))
<1> DEFINE w == snd_pcm_update_hw_ptr(r)
           u == [w EXCEPT !.elapsed = Long, !.running = FALSE, !.state = "PAUSED"]
           v == [w EXCEPT !.elapsed = Long]
<1>1. CASE ~(PauseInfo /\ r.state = "RUNNING")
  BY <1>1, QuietSame DEF pause_push, pause_refused
<1>2. CASE PauseInfo /\ r.state = "RUNNING"
  <2>1. pause_push(r) = u /\ pause_refused(r) = v
    BY <1>2 DEF pause_push, pause_refused
  <2>2. Quiet(r, w) /\ w.state \in {"RUNNING", "XRUN"} /\ w \in Runtime
    BY <1>2, QuietUpdate, UpdateHwSound DEF Sound
  <2> HIDE DEF w
  <2>3. /\ SamePointers(w, u) /\ u.state = "PAUSED"
        /\ SamePointers(w, v) /\ v.state = w.state
    BY <2>2 DEF Runtime, SamePointers, SameQueue
  <2> HIDE DEF u, v
  <2>4. Quiet(r, u) /\ Quiet(r, v)
    BY <1>2, <2>2, <2>3 DEF Quiet, SamePointers, SameQueue
  <2> QED
    BY <2>1, <2>4
<1> QED
  BY <1>1, <1>2

(* The release of a pause.                                                 *)
LEMMA QuietRelease ==
  ASSUME NEW r, Sound(r)
  PROVE  Quiet(r, pause_release(r))
<1>1. /\ SamePointers(r, pause_release(r))
      /\ \/ pause_release(r) = r
         \/ pause_release(r).state = "RUNNING" /\ r.state = "PAUSED"
  BY ReleaseKeeps DEF Sound
<1> QED
  BY <1>1, QuietSame DEF Quiet, SamePointers

(* A prepare is refused, or empties the stream.                            *)
LEMMA PrepareEmpties ==
  ASSUME NEW r, Sound(r)
  PROVE  LET u == snd_pcm_prepare(r)
         IN  \/ Quiet(r, u) /\ u.state \in {"OPEN", "RUNNING"}
             \/ Emptied(r, u) /\ u.state = "PREPARED" /\ u.starved = FALSE
<1> DEFINE u == snd_pcm_prepare(r)
<1>1. PICK s : /\ Sound(s) /\ s = (IF r.state = "PAUSED" THEN snd_pcm_drop(r) ELSE r)
               /\ \/ u = s /\ s.state \in {"OPEN", "RUNNING"}
                  \/ u = Rewound(s) /\ s.state \notin {"OPEN", "RUNNING"}
  BY PrepareCases
<1> HIDE DEF u
<1>2. Quiet(r, s)
  BY <1>1, QuietSame, DropKeeps, QuietStop
<1>3. ASSUME s.state \notin {"OPEN", "RUNNING"}
      PROVE  Rewound(s).queued = 0 /\ Rewound(s).starved = FALSE
             /\ Rewound(s).state = "PREPARED"
  <2> DEFINE d == Discard(s)
  <2>1. d \in Runtime /\ d.queued = 0 /\ d.starved = FALSE
    BY <1>1, DiscardSound DEF Sound
  <2> HIDE DEF d
  <2>2. Rewound(s) = [d EXCEPT
           !.state = "PREPARED", !.pos = 0, !.lag = 0, !.hw_ptr = 0,
           !.hw_ptr_base = 0, !.hw_ptr_interrupt = 0, !.silence_filled = 0, !.appl_ptr = 0]
    BY DEF Rewound, d
  <2> QED
    BY <2>1, <2>2 DEF Runtime
<1>4. \/ Quiet(r, u) /\ u.state \in {"OPEN", "RUNNING"}
      \/ Emptied(r, u) /\ u.state = "PREPARED" /\ u.starved = FALSE
  BY <1>1, <1>2, <1>3 DEF Emptied
<1> QED
  BY <1>4 DEF u

(* HW_PARAMS finds a running stream, or empties it.                        *)
LEMMA HwParamsEmpties ==
  ASSUME Base, OSS32_WaveSetHwParams
  PROVE  Quiet(rt, rt') \/ Emptied(rt, rt')
<1> DEFINE r == rt
           w == rt'
<1>1. PICK a : /\ a = (IF r.state \in {"OPEN", "SETUP", "PREPARED"} THEN r
                       ELSE snd_pcm_prepare(r))
               /\ Sound(a)
               /\ \/ a.state = "RUNNING" /\ w = a
                  \/ /\ a.state # "RUNNING"
                     /\ \E st \in {"SETUP", "OPEN"} : w = Cleared(a, st)
  BY HwParamsCases
<1> HIDE DEF w
<1>2. Quiet(r, a) \/ a.starved = FALSE
  BY <1>1, QuietSame, PrepareEmpties DEF Base
<1>3. ASSUME a.state = "RUNNING" PROVE Quiet(r, a)
  BY <1>1, <1>3, PrepareEmpties DEF Base
<1>4. ASSUME NEW st \in {"SETUP", "OPEN"}, a.state # "RUNNING"
      PROVE  Emptied(r, Cleared(a, st))
  <2> DEFINE u == Cleared(a, st)
  <2>1. u.state = st /\ u.queued = 0
    BY <1>1, <1>4, ClearedSound
  <2>2. u.starved = a.starved
    BY <1>1 DEF Cleared, Sound, Runtime
  <2> HIDE DEF u
  <2>3. Emptied(r, u)
    BY <1>2, <2>1, <2>2 DEF Emptied, Quiet, SameQueue
  <2> QED
    BY <2>3 DEF u
<1>5. Quiet(r, w) \/ Emptied(r, w)
  BY <1>1, <1>3, <1>4
<1> QED
  BY <1>5 DEF w

(* The start of a stream: it runs, and only the area changes.              *)
LEMMA StartKeeps ==
  ASSUME NEW r, Sound(r)
  PROVE  LET u == snd_pcm_start(r)
         IN  /\ SameQueue(r, u)
             /\ \A k \in Slots : u.dma_area[k] = "fresh" => r.dma_area[k] = "fresh"
             /\ \/ u = r /\ ~(r.state = "PREPARED" /\ snd_pcm_playback_avail(r) < BufferSize)
                \/ u.state = "RUNNING" /\ r.state = "PREPARED"
                     /\ snd_pcm_playback_avail(r) < BufferSize
<1> DEFINE s == [r EXCEPT !.state = "RUNNING", !.running = TRUE, !.elapsed = 0]
           u == silence_init(s)
<1>1. CASE ~(r.state = "PREPARED" /\ snd_pcm_playback_avail(r) < BufferSize)
  <2>1. snd_pcm_start(r) = r
    BY <1>1 DEF snd_pcm_start
  <2> QED
    BY <1>1, <2>1 DEF SameQueue
<1>2. CASE r.state = "PREPARED" /\ snd_pcm_playback_avail(r) < BufferSize
  <2>1. snd_pcm_start(r) = u
    BY <1>2 DEF snd_pcm_start
  <2>2. /\ s \in Runtime
        /\ SameQueue(r, s) /\ s.state = "RUNNING" /\ s.dma_area = r.dma_area
    BY Sizes DEF Sound, Runtime, States, SameQueue
  <2> HIDE DEF s
  <2> DEFINE queue == snd_pcm_playback_hw_avail(s)
             filled == IF queue < 0 \/ queue > BufferSize THEN BufferSize ELSE queue
             from == s.hw_ptr + filled
             frames == BufferSize - filled
  <2>3. u = fill_silence_frames(s, from, frames)
    BY DEF silence_init
  <2> HIDE DEF queue, filled, from, frames, u
  <2>4. /\ SameQueue(s, u) /\ u.state = "RUNNING"
        /\ \A k \in Slots : u.dma_area[k] \in {"silence", s.dma_area[k]}
    BY <2>2, <2>3 DEF fill_silence_frames, SameQueue, Runtime
  <2>5. /\ SameQueue(r, u) /\ u.state = "RUNNING"
        /\ \A k \in Slots : u.dma_area[k] = "fresh" => r.dma_area[k] = "fresh"
    BY <2>2, <2>4 DEF SameQueue
  <2> QED
    BY <1>2, <2>1, <2>5
<1> QED
  BY <1>1, <1>2

(* The place of the ring that is so far ahead of p.                        *)
LEMMA SlotOffset ==
  ASSUME NEW k \in Slots, NEW p \in Int
  PROVE  Offset(k, p) \in 0 .. BufferSize - 1 /\ Slot(p, Offset(k, p)) = k
<1> DEFINE B == BufferSize
           x == k - p
<1>1. B \in Nat /\ B > 0 /\ k \in Int /\ k \in 0 .. B - 1 /\ x \in Int /\ p \in Int
  BY Sizes DEF Slots
<1> HIDE DEF x, B
<1>2. x % B \in 0 .. B - 1
  BY <1>1
<1>3. ((x % B) + p) % B = (x + p) % B
  BY <1>1, ModPlus
<1>4. k % B = k
  BY <1>1, SmallMod
<1>5. x + p = k /\ (x % B) + p = p + (x % B)
  BY <1>1, <1>2 DEF x
<1>6. (p + (x % B)) % B = k
  BY <1>3, <1>4, <1>5
<1> QED
  BY <1>2, <1>6 DEF Slot, Offset, x, B

(* The frames of a chunk that were copied and not committed.               *)
Chunk(c) == IF c.pc = "commit" THEN c.frames ELSE 0

(* While a stream plays, every fresh frame is one of the queue or of the   *)
(* chunk behind it: silence is all that is left for the card beyond.       *)
Clean(r, c) ==
    r.state \in {"RUNNING", "PAUSED"} /\ ~r.starved =>
        \A k \in Slots : r.dma_area[k] = "fresh" =>
            \E n \in 0 .. (r.queued + Chunk(c)) - 1 : k = Slot(r.pos, n)

(* A quiet step keeps that.                                                *)
LEMMA QuietClean ==
  ASSUME NEW r, NEW u, Quiet(r, u), NEW c, NEW d, Chunk(d) = Chunk(c), Clean(r, c)
  PROVE  Clean(u, d)
BY DEF Quiet, SameQueue, Clean

(* A start silences everything but the queue.                              *)
LEMMA StartClean ==
  ASSUME NEW r, Sound(r), r.state = "PREPARED", AtStart(r), Even(r),
         snd_pcm_playback_avail(r) < BufferSize, NEW c, Chunk(c) = 0
  PROVE  Clean(snd_pcm_start(r), c)
<1> DEFINE s == [r EXCEPT !.state = "RUNNING", !.running = TRUE, !.elapsed = 0]
           u == silence_init(s)
<1>0. r.pos = 0 /\ r.lag = 0 /\ r.hw_ptr = 0
  BY DEF AtStart
<1>1. snd_pcm_start(r) = u
  BY DEF snd_pcm_start
<1>2. /\ Sound(s) /\ s.lag = 0 /\ s.hw_ptr = 0 /\ s.pos = 0 /\ s.queued = r.queued
      /\ s.appl_ptr = r.appl_ptr
  BY <1>0, Sizes DEF Sound, Runtime, States
<1>3. Even(s)
  BY <1>0, <1>2 DEF Even
<1>4. s.queued \in Nat /\ s \in Runtime
  BY <1>2, Numbers DEF Sound
<1> HIDE DEF s
<1>5. /\ u = [s EXCEPT !.dma_area = u.dma_area, !.silence_filled = BufferSize]
      /\ \A j \in Slots : u.dma_area[j] = IF j < s.queued THEN s.dma_area[j] ELSE "silence"
  BY <1>2, <1>3, SilenceInitIs
<1> HIDE DEF u
<1>6. u.pos = 0 /\ u.queued = s.queued
  BY <1>2, <1>4, <1>5 DEF Runtime
<1>7. ASSUME NEW k \in Slots, u.dma_area[k] = "fresh"
      PROVE  \E n \in 0 .. (u.queued + Chunk(c)) - 1 : k = Slot(u.pos, n)
  <2>1. k < s.queued /\ k \in Nat /\ k \in 0 .. BufferSize - 1
    BY <1>5, <1>7, Sizes DEF Slots
  <2>2. k % BufferSize = k /\ 0 + k = k
    BY <2>1, Sizes, SmallMod
  <2>3. k = Slot(u.pos, k)
    BY <1>6, <2>2 DEF Slot
  <2>4. k \in 0 .. (u.queued + Chunk(c)) - 1
    BY <1>4, <1>6, <2>1
  <2> QED
    BY <2>3, <2>4
<1> QED
  BY <1>1, <1>7 DEF Clean

(* The card turns a frame of the queue into an old one.                    *)
LEMMA PlayedClean ==
  ASSUME NEW r, Sound(r), r.state = "RUNNING", NEW c \in Calls, Clean(r, c)
  PROVE  Clean(Played(r), c)
<1> DEFINE u == Played(r)
<1>1. /\ u.pos = (r.pos + 1) % Boundary
      /\ u.dma_area = [r.dma_area EXCEPT ![Slot(r.pos, 0)] = IF @ = "fresh" THEN "old" ELSE @]
      /\ u.queued = (IF r.queued > 0 THEN r.queued - 1 ELSE 0)
      /\ u.starved = (r.starved \/ r.queued = 0)
  BY PlayedIs
<1>2. r.queued \in Nat /\ r.pos \in Int /\ r.dma_area \in [Slots -> Contents]
  BY Numbers
<1>3. Chunk(c) \in Nat
  BY Sizes DEF Chunk, Calls
<1> HIDE DEF u
<1> SUFFICES ASSUME ~u.starved, NEW k \in Slots, u.dma_area[k] = "fresh"
             PROVE  \E n \in 0 .. (u.queued + Chunk(c)) - 1 : k = Slot(u.pos, n)
  BY DEF Clean, u
<1>4. ~r.starved /\ r.queued > 0
  <2>1. ~r.starved /\ r.queued # 0
    BY <1>1, Zenon
  <2> QED
    BY <1>2, <2>1
<1>5. r.dma_area[k] = "fresh" /\ k # Slot(r.pos, 0)
  BY <1>1, <1>2
<1>6. PICK n \in 0 .. (r.queued + Chunk(c)) - 1 : k = Slot(r.pos, n)
  BY <1>5, <1>4 DEF Clean
<1>7. n # 0 /\ n - 1 \in 0 .. (u.queued + Chunk(c)) - 1 /\ n - 1 \in Int
  BY <1>1, <1>2, <1>3, <1>5, <1>6, <1>4
<1>8. Ahead(r.pos, 1, u.pos)
  BY <1>1 DEF Ahead
<1>9. Slot(u.pos, n - 1) = Slot(r.pos, 1 + (n - 1))
  BY <1>2, <1>7, <1>8, SlotPlus
<1>10. 1 + (n - 1) = n
  BY <1>6
<1> QED
  BY <1>6, <1>7, <1>9, <1>10

(* The copy adds the chunk behind the queue.                               *)
LEMMA CopiedClean ==
  ASSUME NEW r, Sound(r), NEW i, NEW c \in Calls, c.pc = "copy", Precise(r, i, c), Clean(r, c),
         NEW d, d = [c EXCEPT !.pc = "commit"]
  PROVE  Clean(Copied(r, c.frames), d)
<1> DEFINE u == Copied(r, c.frames)
           f == c.frames
<1>1. d.pc = "commit" /\ d.frames = f /\ f \in Nat
  BY Sizes DEF Calls
<1>2. Chunk(c) = 0 /\ Chunk(d) = f
  BY <1>1 DEF Chunk
<1>3. /\ u.state = r.state /\ u.starved = r.starved /\ u.queued = r.queued /\ u.pos = r.pos
      /\ \A k \in Slots : u.dma_area[k] = IF Offset(k, r.appl_ptr) < f THEN "fresh"
                                          ELSE r.dma_area[k]
  BY DEF Sound, Runtime, Copied, Offset
<1>4. r.queued \in Nat /\ r.pos \in Int /\ r.appl_ptr \in Int
  BY Numbers
<1> HIDE DEF u, f
<1> SUFFICES ASSUME r.state \in {"RUNNING", "PAUSED"}, ~r.starved, NEW k \in Slots,
                    u.dma_area[k] = "fresh"
             PROVE  \E n \in 0 .. (u.queued + Chunk(d)) - 1 : k = Slot(u.pos, n)
  BY <1>3 DEF Clean, u, f
<1>5. CASE Offset(k, r.appl_ptr) < f
  <2> DEFINE o == Offset(k, r.appl_ptr)
  <2>1. o \in 0 .. BufferSize - 1 /\ Slot(r.appl_ptr, o) = k
    BY <1>4, SlotOffset
  <2>2. Ahead(r.pos, r.queued, r.appl_ptr)
    BY QueueEnds DEF pcm_accessible_state
  <2>3. o < f
    BY <1>5
  <2> HIDE DEF o
  <2>4. Slot(r.appl_ptr, o) = Slot(r.pos, r.queued + o)
    BY <1>4, <2>1, <2>2, SlotPlus
  <2>5. r.queued + o \in 0 .. (u.queued + Chunk(d)) - 1
    BY <1>1, <1>2, <1>3, <1>4, <2>1, <2>3
  <2> QED
    BY <1>3, <2>1, <2>4, <2>5
<1>6. CASE ~(Offset(k, r.appl_ptr) < f)
  <2>1. r.dma_area[k] = "fresh"
    BY <1>3, <1>6
  <2>2. PICK n \in 0 .. (r.queued + 0) - 1 : k = Slot(r.pos, n)
    BY <1>2, <2>1 DEF Clean
  <2>3. n \in 0 .. (u.queued + Chunk(d)) - 1
    BY <1>1, <1>2, <1>3, <1>4, <2>2
  <2> QED
    BY <1>3, <2>2, <2>3
<1> QED
  BY <1>5, <1>6

(* The commit makes the chunk a part of the queue.                         *)
LEMMA CommittedClean ==
  ASSUME Base, call.pc = "commit", Clean(rt, call), NEW c, Chunk(c) = 0
  PROVE  Clean(Committed, c)
<1>1. /\ Committed.state = rt.state /\ Committed.starved = rt.starved
      /\ Committed.queued = (IF rt.starved THEN rt.queued ELSE rt.queued + call.frames)
      /\ Committed.dma_area = rt.dma_area /\ Committed.pos = rt.pos
  BY CommittedSound
<1>2. Chunk(call) = call.frames /\ rt.queued \in Nat /\ call.frames \in Nat
  BY Numbers, Sizes DEF Chunk, Base, Calls
<1>3. (rt.queued + call.frames) + 0 = rt.queued + call.frames
  BY <1>2
<1> QED
  BY <1>1, <1>2, <1>3 DEF Clean

(* A write that goes on has something to write, a chunk has a frame, and a *)
(* chunk that is to be copied has its place behind the queue, also in a    *)
(* stream that was stopped meanwhile.                                      *)
Begun(r, c) ==
    /\ c.pc \in {"prepare", "write"} => c.size >= 1
    /\ c.pc \in {"copy", "commit"} => c.frames >= 1
    /\ c.pc = "copy" /\ ~r.starved =>
          Ahead(r.pos, r.queued, r.appl_ptr) /\ r.queued + c.frames <= BufferSize

(* The frames o of the chunk that was copied: while the stream takes them, *)
(* they are in the area A behind the queue.                                *)
Offers(r, c, A, o) ==
    /\ c.pc # "commit" => o = <<>>
    /\ c.pc = "commit" =>
          /\ o \in [1 .. c.frames -> Frames]
          /\ pcm_accessible_state(r) /\ ~r.starved =>
                \A k \in 1 .. c.frames : o[k] = A[Slot(r.appl_ptr, k - 1)]

(* Where the area is silent there is silence.                              *)
Labelled(r, A) ==
    /\ A \in [Slots -> Frames \cup {Silence}]
    /\ \A k \in Slots : r.dma_area[k] = "silence" => A[k] = Silence

(* The invariant of a stream with the frames of its client.                *)
Carried ==
    /\ ~reused /\ Labelled(rt, area) /\ Clean(rt, call) /\ Begun(rt, call)
    /\ Offers(rt, call, area, offered)

(* The queue of r in the area A.                                           *)
Waiting(r, A) ==
    IF r.starved THEN <<>> ELSE [k \in 1 .. r.queued |-> A[Slot(r.pos, k - 1)]]

(* What the state st is to the client.                                     *)
Mode(st) ==
    IF st = "PREPARED" THEN "ready"
    ELSE IF st \in {"RUNNING", "PAUSED"} THEN "playing" ELSE "off"

(* The mapping, by these names.                                            *)
LEMMA Mapped ==
  /\ QueueMap = Waiting(rt, area) /\ QueueMap' = Waiting(rt', area')
  /\ StateMap = Mode(rt.state) /\ StateMap' = Mode(rt'.state)
BY DEF QueueMap, Waiting, Slot, StateMap, Mode

(* A function on 1 .. n is a sequence of n.                                *)
LEMMA IsSequence ==
  ASSUME NEW S, NEW n \in Nat, NEW s \in [1 .. n -> S]
  PROVE  s \in Seq(S) /\ Len(s) = n
OBVIOUS

(* A queue is a sequence.                                                  *)
LEMMA WaitingIs ==
  ASSUME NEW r, Sound(r), NEW S, NEW A \in [Slots -> S], ~r.starved
  PROVE  /\ Waiting(r, A) \in Seq(S) /\ Len(Waiting(r, A)) = r.queued
         /\ \A k \in 1 .. r.queued : Waiting(r, A)[k] = A[Slot(r.pos, k - 1)]
<1> DEFINE w == [k \in 1 .. r.queued |-> A[Slot(r.pos, k - 1)]]
<1>1. r.queued \in Nat /\ r.pos \in Int
  BY Numbers
<1>2. ASSUME NEW k \in 1 .. r.queued PROVE A[Slot(r.pos, k - 1)] \in S
  <2>1. k - 1 \in Int
    BY <1>1
  <2>2. Slot(r.pos, k - 1) \in Slots
    BY <1>1, <2>1, SlotInRing
  <2> QED
    BY <2>2
<1>3. w \in [1 .. r.queued -> S]
  BY <1>2
<1>4. Waiting(r, A) = w
  BY DEF Waiting
<1>5. \A k \in 1 .. r.queued : w[k] = A[Slot(r.pos, k - 1)]
  OBVIOUS
<1> HIDE DEF w
<1> QED
  BY <1>1, <1>3, <1>4, <1>5, IsSequence

(* Frames that are fresh are not written over.                             *)
LEMMA WaitingKept ==
  ASSUME NEW r, NEW u, Sound(u), SameQueue(r, u), Kept(u), NEW A, NEW B,
         \A k \in Slots : u.dma_area[k] # "silence" => B[k] = A[k]
  PROVE  Waiting(u, B) = Waiting(r, A)
<1>1. u.pos = r.pos /\ u.queued = r.queued /\ u.starved = r.starved
      /\ u.queued \in Nat /\ u.pos \in Int
  BY Numbers DEF SameQueue
<1>2. ASSUME ~u.starved, NEW k \in 1 .. u.queued
      PROVE  B[Slot(u.pos, k - 1)] = A[Slot(u.pos, k - 1)]
  <2>1. k - 1 \in Int /\ k - 1 \in 0 .. u.queued - 1
    BY <1>1
  <2>2. Slot(u.pos, k - 1) \in Slots
    BY <1>1, <2>1, SlotInRing
  <2>3. u.dma_area[Slot(u.pos, k - 1)] = "fresh"
    BY <1>2, <2>1 DEF Kept
  <2> QED
    BY <2>2, <2>3
<1>3. CASE ~u.starved
  BY <1>1, <1>2, <1>3 DEF Waiting
<1>4. CASE u.starved
  BY <1>1, <1>4 DEF Waiting
<1> QED
  BY <1>3, <1>4

(* What a step that neither plays nor copies does to the area.             *)
LEMMA ControlArea ==
  ASSUME Carried, Controls
  PROVE  /\ Labelled(rt', area')
         /\ \A k \in Slots : rt'.dma_area[k] # "silence" => area'[k] = area[k]
         /\ heard' = heard
BY DEF Carried, Controls, Labelled

(* Where frames go on being offered, they are still in the area.           *)
LEMMA OffersKept ==
  ASSUME NEW r, NEW u, Sound(r), Sound(u), SameQueue(r, u),
         pcm_accessible_state(u) => pcm_accessible_state(r),
         NEW c \in Calls, pcm_accessible_state(u) /\ ~u.starved => Filled(u, c),
         NEW A, NEW B, \A k \in Slots : u.dma_area[k] # "silence" => B[k] = A[k],
         NEW o, Offers(r, c, A, o)
  PROVE  Offers(u, c, B, o)
<1>1. u.appl_ptr = r.appl_ptr /\ u.starved = r.starved /\ u.appl_ptr \in Int
      /\ c.frames \in Nat
  BY Numbers, Sizes DEF SameQueue, Calls
<1>2. ASSUME c.pc = "commit", pcm_accessible_state(u), ~u.starved, NEW k \in 1 .. c.frames
      PROVE  o[k] = B[Slot(u.appl_ptr, k - 1)]
  <2>1. k - 1 \in Int /\ k - 1 \in 0 .. c.frames - 1
    BY <1>1
  <2>2. Slot(u.appl_ptr, k - 1) \in Slots
    BY <1>1, <2>1, SlotInRing
  <2>3. u.dma_area[Slot(u.appl_ptr, k - 1)] = "fresh"
    BY <1>2, <2>1 DEF Filled
  <2>4. o[k] = A[Slot(r.appl_ptr, k - 1)]
    BY <1>1, <1>2 DEF Offers
  <2> QED
    BY <1>1, <2>2, <2>3, <2>4
<1> QED
  BY <1>2 DEF Offers

(* Before a step and after it.                                             *)
LEMMA BothEnds ==
  ASSUME Base, Base', Exactly', Carried, reused' = reused
  PROVE  /\ Sound(rt) /\ call \in Calls /\ Sound(rt') /\ call' \in Calls
         /\ Precise(rt', irq', call') /\ Kept(rt')
         /\ pcm_accessible_state(rt') /\ ~rt'.starved => Filled(rt', call')
BY DEF Base, Exactly, Precise, Writing, Carried

(* A quiet step keeps the frames, and goes on or stops.                    *)
LEMMA QuietStep ==
  ASSUME Base, Base', Exactly', Carried, reused' = reused, Controls, Quiet(rt, rt'),
         Begun(rt', call'), call' = call \/ (call.pc # "commit" /\ call'.pc # "commit")
  PROVE  Carried' /\ [Heard!Next]_(Heard!vars)
<1> DEFINE r == rt
           u == rt'
           A == area
           B == area'
           c == call
           d == call'
           o == offered
<1>1. /\ Sound(r) /\ Sound(u) /\ d \in Calls /\ Kept(u)
      /\ pcm_accessible_state(u) /\ ~u.starved => Filled(u, d)
  BY BothEnds
<1>2. /\ Labelled(u, B) /\ heard' = heard
      /\ \A k \in Slots : u.dma_area[k] # "silence" => B[k] = A[k]
  BY ControlArea
<1>3. Offers(r, c, A, o) /\ Clean(r, c)
  BY DEF Carried
<1>4. offered' = o /\ Offers(r, d, A, o) /\ Chunk(d) = Chunk(c)
  <2>1. offered' = IF d.pc = "commit" THEN o ELSE <<>>
    BY DEF Controls
  <2> HIDE DEF d, c, r, A, o
  <2>2. c.pc # "commit" => o = <<>>
    BY <1>3 DEF Offers
  <2>3. d = c \/ (c.pc # "commit" /\ d.pc # "commit")
    BY DEF c, d
  <2> QED
    BY <1>3, <2>1, <2>2, <2>3 DEF Offers, Chunk
<1>5. SameQueue(r, u) /\ (pcm_accessible_state(u) => pcm_accessible_state(r))
  BY DEF Quiet, pcm_accessible_state
<1>6. Offers(u, d, B, o) /\ Clean(u, d)
  <2> HIDE DEF r, u, A, B, c, d, o
  <2>1. Quiet(r, u)
    BY DEF r, u
  <2>2. Offers(u, d, B, o)
    BY <1>1, <1>2, <1>4, <1>5, OffersKept
  <2>3. Clean(u, d)
    BY <1>3, <1>4, <2>1, QuietClean
  <2> QED
    BY <2>2, <2>3
<1>7. Carried'
  BY <1>2, <1>4, <1>6 DEF Carried
<1>8. Waiting(u, B) = Waiting(r, A)
  <2> HIDE DEF r, u, A, B
  <2> QED
    BY <1>1, <1>2, <1>5, WaitingKept
<1>9. Mode(u.state) \in {Mode(r.state), "off"}
  BY DEF Quiet, Mode
<1>10. QueueMap' = QueueMap /\ StateMap' \in {StateMap, "off"} /\ u.starved = r.starved
  BY <1>5, <1>8, <1>9, Mapped DEF SameQueue
<1>11. Heard!Stop \/ UNCHANGED Heard!vars
  BY <1>2, <1>4, <1>10 DEF Heard!Stop, Heard!vars
<1> QED
  BY <1>7, <1>11 DEF Heard!Next

(* A step that forgets the queue.                                          *)
LEMMA EmptiedStep ==
  ASSUME Base, Base', Exactly', Carried, reused' = reused, Controls, Emptied(rt, rt'),
         Begun(rt', call'), call.pc # "commit" /\ call'.pc # "commit"
  PROVE  Carried' /\ [Heard!Next]_(Heard!vars)
<1> DEFINE u == rt'
           d == call'
           B == area'
<1>1. Labelled(u, B) /\ heard' = heard /\ offered' = <<>> /\ offered = <<>>
  BY ControlArea DEF Controls, Carried, Offers
<1>2. /\ u.queued = 0 /\ u.state \in {"OPEN", "SETUP", "PREPARED"}
      /\ u.starved = FALSE \/ (u.starved = rt.starved /\ u.state # "PREPARED")
  BY DEF Emptied
<1>3. Clean(u, d) /\ Offers(u, d, B, offered')
  BY <1>1, <1>2 DEF Clean, Offers
<1>4. Carried'
  BY <1>1, <1>3 DEF Carried
<1>5. Waiting(u, B) = <<>>
  <2> HIDE DEF B, u
  <2>1. [k \in 1 .. 0 |-> B[Slot(u.pos, k - 1)]] = <<>>
    OBVIOUS
  <2> QED
    BY <1>2, <2>1 DEF Waiting
<1>6. Mode(u.state) = IF u.state = "PREPARED" THEN "ready" ELSE "off"
  BY <1>2 DEF Mode
<1>7. rt.starved \in BOOLEAN
  BY Numbers DEF Base
<1>8. u.starved \in {FALSE, rt.starved /\ Mode(u.state) = "off"}
  BY <1>2, <1>6, <1>7
<1>9. Heard!Discard
  BY <1>1, <1>5, <1>6, <1>8, Mapped DEF Heard!Discard
<1> QED
  BY <1>4, <1>9 DEF Heard!Next

(* A quiet step leaves the place of a chunk.                               *)
LEMMA QuietBegun ==
  ASSUME NEW r, NEW u, Quiet(r, u), NEW c, Begun(r, c)
  PROVE  Begun(u, c)
BY DEF Quiet, SameQueue, Begun

(* A sequence that begins with one and goes on with another.               *)
LEMMA SeqAppend ==
  ASSUME NEW S, NEW s \in Seq(S), NEW t \in Seq(S), NEW w \in Seq(S),
         Len(w) = Len(s) + Len(t),
         \A k \in 1 .. Len(s) : w[k] = s[k], \A k \in 1 .. Len(t) : w[Len(s) + k] = t[k]
  PROVE  w = s \o t
<1>1. s \o t \in Seq(S) /\ Len(s \o t) = Len(w)
  OBVIOUS
<1>2. ASSUME NEW k \in 1 .. Len(w) PROVE w[k] = (s \o t)[k]
  <2>1. CASE k <= Len(s)
    BY <2>1
  <2>2. CASE k > Len(s)
    <3>1. k - Len(s) \in 1 .. Len(t) /\ Len(s) + (k - Len(s)) = k
      BY <2>2
    <3>2. w[k] = t[k - Len(s)]
      BY <3>1
    <3> QED
      BY <2>2, <3>2
  <2> QED
    BY <2>1, <2>2
<1> QED
  BY <1>1, <1>2

(* A sequence without its first element.                                   *)
LEMMA SeqRest ==
  ASSUME NEW S, NEW s \in Seq(S), NEW w \in Seq(S), Len(s) = Len(w) + 1,
         \A k \in 1 .. Len(w) : w[k] = s[k + 1]
  PROVE  s # <<>> /\ w = Tail(s) /\ Head(s) = s[1]
<1>1. s # <<>> /\ Tail(s) \in Seq(S) /\ Len(Tail(s)) = Len(w) /\ Head(s) = s[1]
  OBVIOUS
<1>2. ASSUME NEW k \in 1 .. Len(w) PROVE w[k] = Tail(s)[k]
  BY <1>1
<1> QED
  BY <1>1, <1>2

(* WaveStart, of a stream that is prepared.                                *)
LEMMA StartStep ==
  ASSUME Base, Exactly, Base', Exactly', Carried, reused' = reused, Controls,
         call' = call, call.pc = "idle", rt' = snd_pcm_start(rt)
  PROVE  Carried' /\ [Heard!Next]_(Heard!vars)
<1> DEFINE r == rt
           u == rt'
           A == area
           B == area'
<1>1. /\ Sound(r) /\ Sound(u) /\ Kept(u) /\ Precise(r, irq, call) /\ Begun(rt, call)
      /\ Labelled(r, A)
  BY BothEnds DEF Carried, Exactly
<1>2. CASE u = r
  BY <1>1, <1>2, QuietSame, QuietStep
<1>3. CASE u # r
  <2>1. /\ SameQueue(r, u) /\ u.state = "RUNNING" /\ r.state = "PREPARED"
        /\ snd_pcm_playback_avail(r) < BufferSize
    BY <1>1, <1>3, StartKeeps
  <2>2. AtStart(r) /\ ~r.starved /\ Even(r) /\ r.lag = 0
    BY <1>1, <2>1 DEF Precise, AtStart, Writing, pcm_accessible_state
  <2>3. Clean(u, call')
    BY <1>1, <2>1, <2>2, StartClean DEF Chunk
  <2>4. /\ Labelled(u, B) /\ heard' = heard /\ offered' = <<>> /\ offered = <<>>
        /\ \A k \in Slots : u.dma_area[k] # "silence" => B[k] = A[k]
    BY ControlArea DEF Controls, Carried, Offers
  <2>5. Offers(u, call', B, offered')
    BY <2>4 DEF Offers
  <2>6. Carried'
    <3>1. Begun(u, call')
      BY DEF Begun
    <3> QED
      BY <2>3, <2>4, <2>5, <3>1 DEF Carried
  <2>7. Waiting(u, B) = Waiting(r, A)
    <3> HIDE DEF r, u, A, B
    <3> QED
      BY <1>1, <2>1, <2>4, WaitingKept
  <2>8. r.queued > 0
    <3>1. snd_pcm_playback_avail(r) = BufferSize - (r.lag + r.queued)
      BY <1>1, <2>2, AvailIs
    <3>2. r.queued \in Nat /\ BufferSize \in Nat
      BY <1>1, Numbers, Sizes
    <3> QED
      BY <2>1, <2>2, <3>1, <3>2
  <2>9. Waiting(r, A) # <<>>
    <3>1. Len(Waiting(r, A)) = r.queued
      BY <1>1, <2>2, WaitingIs DEF Labelled
    <3> QED
      BY <2>8, <3>1
  <2>10. Mode(r.state) = "ready" /\ Mode(u.state) = "playing" /\ u.starved = r.starved
    BY <2>1 DEF Mode, SameQueue
  <2>11. Heard!Start
    BY <2>4, <2>7, <2>9, <2>10, Mapped DEF Heard!Start
  <2> QED
    BY <2>6, <2>11 DEF Heard!Next
<1> QED
  BY <1>2, <1>3

(* The queue after a commit: the chunk was appended.                       *)
LEMMA WaitingAccepts ==
  ASSUME Base, Precise(rt, irq, call), call.pc = "commit", pcm_accessible_state(rt), ~rt.starved,
         NEW u, Sound(u), SameQueue(Committed, u), Kept(u),
         NEW S, Frames \subseteq S, NEW A \in [Slots -> S], NEW B \in [Slots -> S],
         \A k \in Slots : u.dma_area[k] # "silence" => B[k] = A[k],
         NEW o, Offers(rt, call, A, o)
  PROVE  /\ Waiting(u, B) = Waiting(rt, A) \o o
         /\ Len(Waiting(u, B)) <= BufferSize
<1> DEFINE r == rt
           f == call.frames
           s == Waiting(r, A)
           w == Waiting(u, B)
<1>1. /\ Sound(r) /\ r.queued \in Nat /\ f \in Nat /\ r.pos \in Int /\ r.appl_ptr \in Int
  BY Numbers, Sizes DEF Base, Calls
<1>2. u.pos = r.pos /\ u.queued = r.queued + f /\ ~u.starved
  BY CommittedSound DEF SameQueue
<1>3. /\ s \in Seq(S) /\ Len(s) = r.queued
      /\ \A k \in 1 .. r.queued : s[k] = A[Slot(r.pos, k - 1)]
  BY <1>1, WaitingIs
<1>4. /\ w \in Seq(S) /\ Len(w) = r.queued + f
      /\ \A k \in 1 .. r.queued + f : w[k] = B[Slot(r.pos, k - 1)]
  <2>1. /\ w \in Seq(S) /\ Len(w) = u.queued
        /\ \A k \in 1 .. u.queued : w[k] = B[Slot(u.pos, k - 1)]
    BY <1>2, WaitingIs
  <2> HIDE DEF w, r, f
  <2> QED
    BY <1>2, <2>1
<1>5. /\ o \in [1 .. f -> S]
      /\ \A k \in 1 .. f : o[k] = A[Slot(r.appl_ptr, k - 1)]
  BY DEF Offers
<1>6. o \in Seq(S) /\ Len(o) = f
  BY <1>1, <1>5, IsSequence
<1>7. Ahead(r.pos, r.queued, r.appl_ptr)
  BY <1>1, QueueEnds
<1> HIDE DEF r, f, s, w
<1>8. ASSUME NEW k \in 1 .. r.queued + f
      PROVE  w[k] = A[Slot(r.pos, k - 1)]
  <2>1. k - 1 \in Int /\ k - 1 \in 0 .. u.queued - 1
    BY <1>1, <1>2
  <2>2. Slot(r.pos, k - 1) \in Slots
    BY <1>1, <2>1, SlotInRing
  <2>3. u.dma_area[Slot(r.pos, k - 1)] = "fresh"
    BY <1>2, <2>1 DEF Kept
  <2> QED
    BY <1>4, <2>2, <2>3
<1>9. ASSUME NEW k \in 1 .. Len(s) PROVE w[k] = s[k]
  BY <1>1, <1>3, <1>8
<1>10. Len(s) = r.queued /\ Len(o) = f /\ r.queued \in Nat /\ f \in Nat
       /\ Len(w) = Len(s) + Len(o)
  BY <1>1, <1>3, <1>4, <1>6
<1>11. ASSUME NEW k \in 1 .. Len(o) PROVE w[Len(s) + k] = o[k]
  <2>1. /\ Len(s) + k \in 1 .. r.queued + f /\ (Len(s) + k) - 1 = r.queued + (k - 1)
        /\ k - 1 \in Int /\ k \in 1 .. f
    BY <1>10
  <2>2. Slot(r.appl_ptr, k - 1) = Slot(r.pos, r.queued + (k - 1))
    BY <1>1, <1>7, <2>1, SlotPlus
  <2> QED
    BY <1>5, <1>8, <2>1, <2>2
<1>12. w = s \o o
  BY <1>3, <1>4, <1>6, <1>9, <1>11, <1>10, SeqAppend
<1>13. Len(w) <= BufferSize
  BY <1>2, <1>4 DEF Kept
<1> QED
  BY <1>12, <1>13 DEF s, w, r

(* A commit that is accepted.                                              *)
LEMMA AcceptStep ==
  ASSUME Base, Exactly, Base', Exactly', Carried, reused' = reused, Controls,
         call.pc = "commit", call'.pc # "commit", Begun(rt', call'),
         pcm_accessible_state(rt), ~rt.starved,
         SameQueue(Committed, rt'), Clean(rt', call'),
         rt'.state = rt.state \/ rt'.state = "RUNNING"
  PROVE  Carried' /\ [Heard!Next]_(Heard!vars)
<1> DEFINE r == rt
           u == rt'
           A == area
           B == area'
           S == Frames \cup {Silence}
<1>1. /\ Sound(u) /\ Kept(u) /\ Precise(r, irq, call) /\ Offers(r, call, A, offered)
      /\ A \in [Slots -> S] /\ Frames \subseteq S
  BY BothEnds DEF Exactly, Carried, Labelled
<1>2. /\ Labelled(u, B) /\ B \in [Slots -> S] /\ heard' = heard /\ offered' = <<>>
      /\ \A k \in Slots : u.dma_area[k] # "silence" => B[k] = A[k]
  BY ControlArea DEF Controls, Labelled
<1>3. Offers(u, call', B, offered')
  BY <1>2 DEF Offers
<1>4. Carried'
  BY <1>2, <1>3 DEF Carried
<1>5. u.starved = r.starved
  BY CommittedSound DEF SameQueue
<1>6. Waiting(u, B) = Waiting(r, A) \o offered /\ Len(Waiting(u, B)) <= BufferSize
  <2> HIDE DEF u, A, B, S
  <2>1. SameQueue(Committed, u)
    BY DEF u
  <2> QED
    BY <1>1, <1>2, <2>1, WaitingAccepts
<1>7. Mode(r.state) # "off" /\ Mode(u.state) \in {Mode(r.state), "playing"}
  BY DEF Mode, pcm_accessible_state
<1>8. Heard!Accept
  BY <1>2, <1>5, <1>6, <1>7, Mapped DEF Heard!Accept
<1> QED
  BY <1>4, <1>8 DEF Heard!Next

(* A chunk that is given up, or that comes after the frames ran out.       *)
LEMMA RefuseStep ==
  ASSUME Base, Exactly, Base', Exactly', Carried, reused' = reused, Controls,
         call.pc = "commit", call'.pc # "commit", Begun(rt', call'),
         \/ rt' = rt /\ ~pcm_accessible_state(rt)
         \/ /\ rt.starved /\ rt'.starved
            /\ rt'.state \in {rt.state, "OPEN", "XRUN"}
  PROVE  Carried' /\ [Heard!Next]_(Heard!vars)
<1> DEFINE r == rt
           u == rt'
           A == area
           B == area'
<1>1. Sound(u) /\ Kept(u)
  BY BothEnds
<1>2. /\ Labelled(u, B) /\ heard' = heard /\ offered' = <<>>
      /\ \A k \in Slots : u.dma_area[k] # "silence" => B[k] = A[k]
  BY ControlArea DEF Controls
<1>3. Offers(u, call', B, offered') /\ Clean(u, call')
  BY <1>2 DEF Offers, Clean, pcm_accessible_state
<1>4. Carried'
  BY <1>2, <1>3 DEF Carried
<1>5. Waiting(u, B) = Waiting(r, A) /\ u.starved = r.starved
  <2>1. CASE u = r
    <3>1. SameQueue(r, u)
      BY <2>1 DEF SameQueue
    <3> HIDE DEF r, u, A, B
    <3> QED
      BY <1>1, <1>2, <2>1, <3>1, WaitingKept
  <2>2. CASE r.starved /\ u.starved
    <3>1. r.starved \in BOOLEAN /\ u.starved \in BOOLEAN
      BY <1>1, Numbers DEF Base
    <3> QED
      BY <2>2, <3>1 DEF Waiting
  <2> QED
    BY <2>1, <2>2
<1>6. /\ Mode(r.state) = "off" \/ r.starved
      /\ Mode(u.state) \in {Mode(r.state), "off"}
  BY DEF Mode, pcm_accessible_state, Base, Sound, Runtime, States
<1>7. Heard!Refuse
  BY <1>2, <1>5, <1>6, Mapped DEF Heard!Refuse
<1> QED
  BY <1>4, <1>7 DEF Heard!Next

(* A sequence is empty when its length is zero.                            *)
LEMMA EmptyFunction ==
  ASSUME NEW S, NEW n \in Nat, NEW o \in [1 .. n -> S], o = <<>>
  PROVE  n = 0
<1>1. Len(o) = n
  BY IsSequence
<1> QED
  BY <1>1

(* The card meets no old frame.                                            *)
LEMMA NotOld ==
  ASSUME NEW r, Sound(r), Tracked(r)
  PROVE  Slot(r.pos, 0) \in Slots /\ r.dma_area[Slot(r.pos, 0)] # "old"
<1>1. r.lag \in Nat /\ r.lag + 0 < BufferSize /\ r.lag + 0 = r.lag /\ ~(r.lag < r.lag)
  BY Numbers
<1>2. Slot(r.pos, 0) \in Slots /\ Offset(Slot(r.pos, 0), r.hw_ptr) = r.lag
  BY <1>1, QueueOffset
<1> QED
  BY <1>1, <1>2 DEF Tracked

(* When the queue is empty and no chunk waits, the card plays silence.     *)
LEMMA SilentEnd ==
  ASSUME NEW r, Sound(r), NEW i, NEW c, Precise(r, i, c), r.state = "RUNNING", ~r.starved,
         r.queued = 0, Clean(r, c), Chunk(c) = 0, NEW A, Labelled(r, A)
  PROVE  A[Slot(r.pos, 0)] = Silence
<1>1. Slot(r.pos, 0) \in Slots /\ r.dma_area[Slot(r.pos, 0)] # "old"
  BY NotOld DEF Precise, Follows
<1>2. r.dma_area[Slot(r.pos, 0)] # "fresh"
  <2>1. \A n \in 0 .. (0 + 0) - 1 : FALSE
    OBVIOUS
  <2> QED
    BY <1>1, <2>1 DEF Clean
<1>3. r.dma_area[Slot(r.pos, 0)] = "silence"
  BY <1>1, <1>2, Numbers DEF Contents
<1> QED
  BY <1>1, <1>3 DEF Labelled

(* The queue without the frame that was played.                            *)
LEMMA WaitingPlays ==
  ASSUME NEW r, Sound(r), Sound(Played(r)), ~r.starved, r.queued > 0,
         NEW S, NEW A \in [Slots -> S]
  PROVE  LET s == Waiting(r, A)
         IN  s # <<>> /\ Head(s) = A[Slot(r.pos, 0)] /\ Waiting(Played(r), A) = Tail(s)
<1> DEFINE u == Played(r)
           s == Waiting(r, A)
           w == Waiting(u, A)
<1>1. r.queued \in Nat /\ r.pos \in Int /\ r.starved \in BOOLEAN
  BY Numbers
<1>2. u.pos = (r.pos + 1) % Boundary /\ u.queued = r.queued - 1 /\ ~u.starved
  <2>1. /\ u.pos = (r.pos + 1) % Boundary
        /\ u.queued = (IF r.queued > 0 THEN r.queued - 1 ELSE 0)
        /\ u.starved = (r.starved \/ r.queued = 0)
    BY PlayedIs
  <2>2. r.queued # 0
    BY <1>1
  <2>3. ~u.starved
    <3> HIDE DEF u
    <3> QED
      BY <2>1, <2>2, Zenon
  <2> QED
    BY <2>1, <2>3
<1>3. /\ s \in Seq(S) /\ Len(s) = r.queued
      /\ \A k \in 1 .. r.queued : s[k] = A[Slot(r.pos, k - 1)]
  BY WaitingIs
<1> HIDE DEF u
<1>4. /\ w \in Seq(S) /\ Len(w) = u.queued
      /\ \A k \in 1 .. u.queued : w[k] = A[Slot(u.pos, k - 1)]
  <2>1. Sound(u)
    BY DEF u
  <2> QED
    BY <1>2, <2>1, WaitingIs
<1>5. Ahead(r.pos, 1, u.pos)
  BY <1>2 DEF Ahead
<1> HIDE DEF s, w
<1>6. Len(w) \in Nat /\ Len(s) = Len(w) + 1 /\ Len(w) = u.queued
  BY <1>1, <1>2, <1>3, <1>4
<1>7. ASSUME NEW k \in 1 .. Len(w) PROVE w[k] = s[k + 1]
  <2>1. k - 1 \in Int /\ 1 + (k - 1) = (k + 1) - 1 /\ k + 1 \in 1 .. r.queued
        /\ k \in 1 .. u.queued
    BY <1>1, <1>2, <1>6
  <2>2. Slot(u.pos, k - 1) = Slot(r.pos, 1 + (k - 1))
    BY <1>1, <1>5, <2>1, SlotPlus
  <2> QED
    BY <1>3, <1>4, <2>1, <2>2
<1>8. s # <<>> /\ w = Tail(s) /\ Head(s) = s[1]
  BY <1>3, <1>4, <1>6, <1>7, SeqRest
<1>9. s[1] = A[Slot(r.pos, 0)]
  <2>1. 1 \in 1 .. r.queued /\ 1 - 1 = 0
    BY <1>1
  <2> QED
    BY <1>3, <2>1
<1> QED
  BY <1>8, <1>9 DEF s, w, u

(* The place of a chunk, when a frame of the queue was played.             *)
LEMMA PlayedBegun ==
  ASSUME NEW r, Sound(r), NEW c \in Calls, Begun(r, c)
  PROVE  Begun(Played(r), c)
<1> DEFINE u == Played(r)
<1>1. r.queued \in Nat /\ r.pos \in Int /\ r.starved \in BOOLEAN /\ c.frames \in Nat
      /\ BufferSize \in Nat
  BY Numbers, Sizes DEF Calls
<1>2. /\ u.pos = (r.pos + 1) % Boundary /\ u.appl_ptr = r.appl_ptr
      /\ u.queued = (IF r.queued > 0 THEN r.queued - 1 ELSE 0)
      /\ u.starved = (r.starved \/ r.queued = 0)
  BY PlayedIs
<1> HIDE DEF u
<1>3. ASSUME c.pc = "copy", ~u.starved
      PROVE  Ahead(u.pos, u.queued, u.appl_ptr) /\ u.queued + c.frames <= BufferSize
  <2>1. ~r.starved /\ r.queued # 0
    BY <1>2, <1>3, Zenon
  <2>2. Ahead(r.pos, r.queued, r.appl_ptr) /\ r.queued + c.frames <= BufferSize
    BY <1>3, <2>1 DEF Begun
  <2>3. /\ u.queued = r.queued - 1 /\ u.queued \in Int /\ 1 + u.queued = r.queued
        /\ u.queued + c.frames <= BufferSize
    BY <1>1, <1>2, <2>1, <2>2
  <2>4. Ahead(r.pos, 1, u.pos)
    BY <1>2 DEF Ahead
  <2>5. Ahead(u.pos, u.queued, r.appl_ptr)
    BY <1>1, <2>2, <2>3, <2>4, AheadPlus
  <2> QED
    BY <1>2, <2>3, <2>5
<1> QED
  BY <1>3 DEF Begun, u

(* The card plays.                                                         *)
LEMMA PlaysStep ==
  ASSUME Base, Exactly, Base', Carried, reused' = reused, Plays
  PROVE  Carried' /\ [Heard!Next]_(Heard!vars)
<1> DEFINE r == rt
           u == rt'
           A == area
           S == Frames \cup {Silence}
<1>1. /\ Sound(r) /\ Sound(u) /\ Precise(r, irq, call) /\ Labelled(r, A) /\ A \in [Slots -> S]
      /\ Clean(r, call) /\ Offers(r, call, A, offered) /\ call \in Calls /\ Begun(rt, call)
  BY DEF Base, Exactly, Carried, Labelled
<1>2. /\ u = Played(r) /\ call' = call /\ r.state = "RUNNING" /\ r.lag < MaxLag
      /\ area' = area /\ offered' = offered /\ heard' = A[r.pos % BufferSize]
  BY DmaFrameIs DEF Plays, DmaFrame, Base, Sound
<1>3. r.queued \in Nat /\ r.pos \in Int /\ r.starved \in BOOLEAN
      /\ r.dma_area \in [Slots -> Contents]
  BY <1>1, Numbers
<1>4. heard' = A[Slot(r.pos, 0)] /\ Slot(r.pos, 0) \in Slots
  <2>1. r.pos + 0 = r.pos
    BY <1>3
  <2>2. Slot(r.pos, 0) \in Slots
    BY <1>3, SlotInRing
  <2> QED
    BY <1>2, <2>1, <2>2 DEF Slot
<1>5. /\ u.dma_area = [r.dma_area EXCEPT ![Slot(r.pos, 0)] = IF @ = "fresh" THEN "old" ELSE @]
      /\ u.starved = (r.starved \/ r.queued = 0) /\ u.appl_ptr = r.appl_ptr
      /\ u.state = "RUNNING"
  BY <1>1, <1>2, PlayedIs, PlayedSound
<1>6. Clean(u, call)
  BY <1>1, <1>2, PlayedClean
<1>7. Labelled(u, A)
  <2>1. ASSUME NEW k \in Slots, u.dma_area[k] = "silence" PROVE r.dma_area[k] = "silence"
    BY <1>3, <1>5, <2>1
  <2> QED
    BY <1>1, <2>1 DEF Labelled
<1>8. Offers(u, call, A, offered)
  <2>1. ~u.starved => ~r.starved
    BY <1>5, Zenon
  <2>2. pcm_accessible_state(r)
    BY <1>2 DEF pcm_accessible_state
  <2> HIDE DEF u, r, A
  <2> QED
    BY <1>1, <1>5, <2>1, <2>2 DEF Offers
<1>9. Begun(u, call)
  BY <1>1, <1>2, PlayedBegun
<1>10. Carried'
  BY <1>2, <1>6, <1>7, <1>8, <1>9 DEF Carried
<1>11. Mode(r.state) = "playing" /\ Mode(u.state) = "playing"
  BY <1>2, <1>5 DEF Mode
<1>12. CASE ~r.starved /\ r.queued > 0
  <2>1. /\ Waiting(r, A) # <<>> /\ heard' = Head(Waiting(r, A))
        /\ Waiting(u, A) = Tail(Waiting(r, A))
    <3> HIDE DEF S, A, r, u
    <3> QED
      BY <1>1, <1>2, <1>4, <1>12, WaitingPlays
  <2>2. ~u.starved
    <3>1. r.queued # 0
      BY <1>3, <1>12
    <3> QED
      BY <1>5, <1>12, <3>1, Zenon
  <2>3. u.starved = r.starved
    <3>1. u.starved \in BOOLEAN
      BY <1>1, Numbers
    <3> QED
      BY <1>3, <1>12, <2>2, <3>1
  <2>4. Heard!Play
    BY <1>2, <1>11, <1>12, <2>1, <2>3, Mapped DEF Heard!Play
  <2> QED
    BY <1>10, <2>4 DEF Heard!Next
<1>13. CASE r.starved \/ r.queued = 0
  <2>1. u.starved = TRUE
    BY <1>5, <1>13
  <2>2. Waiting(u, A) = <<>> /\ Waiting(r, A) = <<>>
    <3>1. [k \in 1 .. 0 |-> A[Slot(r.pos, k - 1)]] = <<>>
      OBVIOUS
    <3>2. Waiting(u, A) = <<>>
      BY <2>1 DEF Waiting
    <3>3. CASE r.starved
      BY <3>2, <3>3 DEF Waiting
    <3>4. CASE r.queued = 0
      BY <3>1, <3>2, <3>4 DEF Waiting
    <3> QED
      BY <1>13, <3>3, <3>4
  <2>3. heard' \in Frames \cup {Silence}
    BY <1>1, <1>4
  <2>4. ASSUME ~r.starved, offered = <<>> PROVE heard' = Silence
    <3>1. Chunk(call) = 0
      <4>1. CASE call.pc = "commit"
        <5>1. offered \in [1 .. call.frames -> Frames] /\ call.frames \in Nat
          BY <1>1, <4>1, Sizes DEF Offers, Calls
        <5>2. call.frames = 0
          BY <2>4, <5>1, EmptyFunction
        <5> QED
          BY <4>1, <5>2 DEF Chunk
      <4>2. CASE call.pc # "commit"
        BY <4>2 DEF Chunk
      <4> QED
        BY <4>1, <4>2
    <3> QED
      BY <1>1, <1>2, <1>4, <1>13, <2>4, <3>1, SilentEnd
  <2>5. heard' \in IF r.starved \/ offered # <<>> THEN Frames \cup {Silence} ELSE {Silence}
    BY <2>3, <2>4
  <2>6. Heard!RunDry
    BY <1>2, <1>11, <2>1, <2>2, <2>5, Mapped DEF Heard!RunDry
  <2> QED
    BY <1>10, <2>6 DEF Heard!Next
<1> QED
  BY <1>3, <1>12, <1>13

(* A place of the ring is reached once.                                    *)
LEMMA SlotDistance ==
  ASSUME NEW p \in 0 .. Boundary - 1, NEW n \in 0 .. BufferSize - 1
  PROVE  Slot(p, n) \in Slots /\ Offset(Slot(p, n), p) = n
<1>1. Ahead(p, 0, p) /\ p \in Int /\ n \in Nat /\ 0 + n < BufferSize /\ 0 + n = n
  BY AheadZero, Sizes
<1>2. Slot(p, n) \in Slots /\ Offset(Slot(p, n), p) = 0 + n
  BY <1>1, RingAhead
<1> QED
  BY <1>1, <1>2

(* The copy of a chunk, behind the queue.                                  *)
LEMMA CopiesStep ==
  ASSUME Base, Exactly, Base', Carried, reused' = reused, Copies
  PROVE  Carried' /\ [Heard!Next]_(Heard!vars)
<1> DEFINE r == rt
           u == rt'
           A == area
           B == area'
           f == call.frames
           S == Frames \cup {Silence}
<1>1. /\ Sound(r) /\ Precise(r, irq, call) /\ Labelled(r, A) /\ A \in [Slots -> S]
      /\ Clean(r, call) /\ Offers(r, call, A, offered) /\ call \in Calls /\ Begun(r, call)
  BY DEF Base, Exactly, Carried, Labelled
<1>2. /\ u = Copied(r, f) /\ call.pc = "copy" /\ call' = [call EXCEPT !.pc = "commit"]
      /\ heard' = heard
  BY CopyIs DEF Copies, XferCopy, Section, Goto
<1>3. PICK s \in [1 .. f -> Frames] :
        /\ offered' = s
        /\ B = [k \in Slots |-> IF Offset(k, r.appl_ptr) < f
                                THEN s[Offset(k, r.appl_ptr) + 1] ELSE A[k]]
  BY DEF Copies, Offset
<1>4. /\ r.queued \in Nat /\ r.pos \in 0 .. Boundary - 1 /\ r.appl_ptr \in 0 .. Boundary - 1
      /\ r.pos \in Int /\ r.appl_ptr \in Int /\ f \in Nat /\ f <= BufferSize
      /\ BufferSize \in Nat /\ r.starved \in BOOLEAN
  BY <1>1, Numbers, Sizes DEF Calls
<1>5. call'.pc = "commit" /\ call'.frames = f /\ f >= 1 /\ offered = <<>>
  BY <1>1, <1>2 DEF Calls, Begun, Offers
<1>6. /\ u.state = r.state /\ u.starved = r.starved /\ u.queued = r.queued /\ u.pos = r.pos
      /\ u.appl_ptr = r.appl_ptr
      /\ \A k \in Slots : u.dma_area[k] = IF Offset(k, r.appl_ptr) < f THEN "fresh"
                                          ELSE r.dma_area[k]
  BY <1>1, <1>2 DEF Sound, Runtime, Copied, Offset
<1>7. Clean(u, call')
  <2> HIDE DEF u, r
  <2> QED
    BY <1>1, <1>2, CopiedClean
<1> HIDE DEF u, r, A, B, f
<1>8. Labelled(u, B)
  <2>1. ASSUME NEW k \in Slots, Offset(k, r.appl_ptr) < f
        PROVE  s[Offset(k, r.appl_ptr) + 1] \in Frames
    <3> DEFINE o == Offset(k, r.appl_ptr)
    <3>1. o \in 0 .. BufferSize - 1
      BY <1>4, SlotOffset
    <3>2. o < f
      BY <2>1
    <3> HIDE DEF o
    <3>3. o + 1 \in 1 .. f
      BY <1>4, <3>1, <3>2
    <3>4. s[o + 1] \in Frames
      BY <3>3
    <3> QED
      BY <3>4 DEF o
  <2>2. B \in [Slots -> S]
    BY <1>1, <1>3, <2>1
  <2>3. ASSUME NEW k \in Slots, u.dma_area[k] = "silence" PROVE B[k] = Silence
    <3>1. ~(Offset(k, r.appl_ptr) < f) /\ r.dma_area[k] = "silence"
      BY <1>6, <2>3
    <3> QED
      BY <1>1, <1>3, <3>1 DEF Labelled
  <2> QED
    BY <2>2, <2>3 DEF Labelled
<1>9. ASSUME NEW k \in 1 .. f PROVE s[k] = B[Slot(r.appl_ptr, k - 1)]
  <2>1. k - 1 \in 0 .. BufferSize - 1 /\ k - 1 < f /\ (k - 1) + 1 = k
    BY <1>4
  <2>2. Slot(r.appl_ptr, k - 1) \in Slots /\ Offset(Slot(r.appl_ptr, k - 1), r.appl_ptr) = k - 1
    BY <1>4, <2>1, SlotDistance
  <2> QED
    BY <1>3, <2>1, <2>2
<1>10. Offers(u, call', B, offered') /\ Begun(u, call')
  BY <1>3, <1>5, <1>6, <1>9 DEF Offers, Begun
<1>11. Carried'
  BY <1>7, <1>8, <1>10 DEF Carried, u, B
<1>12. Waiting(u, B) = Waiting(r, A)
  <2>1. ASSUME ~r.starved, NEW k \in 1 .. r.queued
        PROVE  B[Slot(r.pos, k - 1)] = A[Slot(r.pos, k - 1)]
    <3> DEFINE n == k - 1
               i == Slot(r.pos, n)
               o == Offset(i, r.appl_ptr)
    <3>1. Ahead(r.pos, r.queued, r.appl_ptr) /\ r.queued + f <= BufferSize
      BY <1>1, <1>2, <2>1 DEF Begun, f
    <3>2. n \in 0 .. BufferSize - 1 /\ n < r.queued
      BY <1>4, <3>1
    <3> HIDE DEF n
    <3>3. i \in Slots /\ Offset(i, r.pos) = n
      BY <1>4, <3>2, SlotDistance
    <3> HIDE DEF i
    <3>4. o \in 0 .. BufferSize - 1 /\ Slot(r.appl_ptr, o) = i
      BY <1>4, <3>3, SlotOffset
    <3> HIDE DEF o
    <3>5. Slot(r.appl_ptr, o) = Slot(r.pos, r.queued + o)
      BY <1>4, <3>1, <3>4, SlotPlus
    <3>6. ASSUME o < f PROVE FALSE
      <4>1. r.queued + o \in 0 .. BufferSize - 1
        BY <1>4, <3>1, <3>4, <3>6
      <4>2. Offset(i, r.pos) = r.queued + o
        BY <1>4, <3>4, <3>5, <4>1, SlotDistance
      <4> QED
        BY <1>4, <3>2, <3>3, <3>4, <4>2
    <3>7. B[i] = A[i]
      BY <1>3, <3>3, <3>6 DEF o
    <3> QED
      BY <3>7 DEF i, n
  <2>2. CASE r.starved
    BY <1>6, <2>2 DEF Waiting
  <2>3. CASE ~r.starved
    BY <1>6, <2>1, <2>3 DEF Waiting
  <2> QED
    BY <2>2, <2>3
<1>13. s \in Seq(Frames)
  BY <1>4, IsSequence
<1>14. /\ QueueMap' = QueueMap /\ StateMap' = StateMap /\ rt'.starved = rt.starved
  BY <1>6, <1>12, Mapped DEF r, u, A, B
<1>15. Heard!Offer
  BY <1>2, <1>3, <1>5, <1>13, <1>14 DEF Heard!Offer
<1> QED
  BY <1>11, <1>15 DEF Heard!Next

(* A chunk of a write that goes on has a frame.                            *)
LEMMA ChunkBegun ==
  ASSUME NEW r, Sound(r), NEW size \in Nat, size >= 1, NEW avail \in 0 .. Boundary,
         ~r.starved => /\ Ahead(r.pos, r.queued, r.appl_ptr)
                       /\ avail + r.queued <= BufferSize
  PROVE  LET d == NextChunk(r, size, avail)
         IN  Begun(r, d) /\ d.pc \in {"idle", "copy"}
<1> DEFINE d == NextChunk(r, size, avail)
           z == r.appl_ptr % BufferSize
           f == Least(Least(size, avail), BufferSize - z)
<1>1. z \in 0 .. BufferSize - 1 /\ r.queued \in Nat
  BY Numbers, Sizes
<1>2. CASE avail = 0
  <2>1. d.pc = "idle"
    BY <1>2 DEF NextChunk, Idle
  <2> HIDE DEF d
  <2>2. Begun(r, d)
    BY <2>1 DEF Begun
  <2> QED
    BY <2>1, <2>2 DEF d
<1>3. CASE avail # 0
  <2>1. d.pc = "copy" /\ d.frames = f
    BY <1>3 DEF NextChunk
  <2> HIDE DEF d, z
  <2>2. f \in Nat /\ f >= 1 /\ f <= avail
    BY <1>1, <1>3, Sizes DEF Least
  <2> HIDE DEF f
  <2>3. r.queued + f <= avail + r.queued /\ BufferSize \in Nat
    BY <1>1, <2>2, Sizes
  <2>4. ~r.starved => r.queued + f <= BufferSize
    BY <1>1, <2>2, <2>3
  <2>5. Begun(r, d)
    BY <2>1, <2>2, <2>4 DEF Begun
  <2> QED
    BY <2>1, <2>5 DEF d
<1> QED
  BY <1>2, <1>3

(* No step changes the reuse flag of the handle.                           *)
LEMMA ReusedKept == ASSUME [Next]_vars PROVE reused' = reused
BY DEF Next, Control, CallSection, vars, DmaFrame, snd_pcm_period_elapsed, snd_pcm_stop_xrun,
       OSS32_WavePrepare, OSS32_WaveStart, OSS32_WaveStop, OSS32_WavePause,
       OSS32_WaveResume, OSS32_WaveGetStatus, OSS32_WaveSetHwParams, snd_pcm_release,
       OSS32_WaveClose, OSS32_WaveAddBuffer, CloseDoReset, ClosePostReset, ClosePrepare,
       AddBufferPrepare, XferBegin, XferCopy, XferCommit, XferStartFails, Call, Section

(* The room that a write finds is behind the queue.                        *)
LEMMA RoomFound ==
  ASSUME Timely, NEW r, Sound(r), NEW i, NEW c \in Calls, ChunkFits(c), Precise(r, i, c),
         pcm_accessible_state(r), NEW u, u = snd_pcm_update_hw_ptr(r), ~u.starved
  PROVE  /\ Ahead(u.pos, u.queued, u.appl_ptr)
         /\ snd_pcm_playback_avail(u) + u.queued <= BufferSize
<1>1. Sound(u)
  BY UpdateHwSound
<1>2. Even(u) /\ Ahead(u.pos, u.queued, u.appl_ptr)
  <2>1. CASE r.state = "RUNNING"
    <3>1. Tracked(u) /\ Writing(u, c)
      BY <2>1, UpdateTracks
    <3>2. /\ Ahead(u.hw_ptr, u.lag, u.pos) /\ Ahead(u.hw_ptr, u.lag + u.queued, u.appl_ptr)
          /\ u.hw_ptr \in Int /\ u.lag \in Int /\ u.queued \in Int
      BY <1>1, <3>1, Numbers DEF Tracked, Writing, Even
    <3> QED
      BY <3>1, <3>2, AheadPlus DEF Writing
  <2>2. CASE r.state # "RUNNING"
    <3>1. u = r
      BY <2>2 DEF snd_pcm_update_hw_ptr, snd_pcm_running
    <3> QED
      BY <1>1, <3>1, QueueEnds DEF Precise, Writing
  <2> QED
    BY <2>1, <2>2
<1>3. snd_pcm_playback_avail(u) = BufferSize - (u.lag + u.queued)
  BY <1>1, <1>2, AvailIs
<1>4. u.lag \in Nat /\ u.queued \in Nat /\ BufferSize \in Nat
  BY <1>1, Numbers, Sizes
<1> QED
  BY <1>2, <1>3, <1>4

(* The beginning of a write.                                               *)
LEMMA BeginStep ==
  ASSUME Timely, Base, Exactly, Base', Exactly', Carried, reused' = reused, Controls, XferBegin
  PROVE  Carried' /\ [Heard!Next]_(Heard!vars)
<1> DEFINE u == snd_pcm_update_hw_ptr(rt)
           a == snd_pcm_playback_avail(u)
<1>1. /\ Sound(rt) /\ Precise(rt, irq, call) /\ call \in Calls /\ ChunkFits(call)
      /\ Begun(rt, call)
  BY DEF Base, Exactly, Carried
<1>2. /\ call.pc = "write"
      /\ \/ pcm_accessible_state(rt) /\ rt' = u /\ call' = NextChunk(u, call.size, a)
         \/ rt' = rt /\ call' = Idle
  BY DEF XferBegin, Return, Section
<1>3. call.size \in Nat /\ call.size >= 1
  BY <1>1, <1>2 DEF Begun, Calls
<1>4. Quiet(rt, u) /\ Sound(u)
  BY <1>1, QuietUpdate, UpdateHwSound
<1>5. a \in 0 .. Boundary
  BY <1>4, AvailType, Sizes DEF Sound
<1>6. CASE rt' = rt /\ call' = Idle
  <2>1. Begun(rt', call') /\ call'.pc # "commit"
    BY <1>6 DEF Begun, Idle
  <2> QED
    BY <1>2, <1>6, <2>1, QuietSame, QuietStep
<1>7. CASE pcm_accessible_state(rt) /\ rt' = u /\ call' = NextChunk(u, call.size, a)
  <2>1. ~u.starved => /\ Ahead(u.pos, u.queued, u.appl_ptr)
                      /\ a + u.queued <= BufferSize
    BY <1>1, <1>7, RoomFound
  <2> HIDE DEF u, a
  <2>2. Begun(u, NextChunk(u, call.size, a))
        /\ NextChunk(u, call.size, a).pc \in {"idle", "copy"}
    BY <1>3, <1>4, <1>5, <2>1, ChunkBegun
  <2>3. Begun(rt', call') /\ call'.pc # "commit" /\ Quiet(rt, rt')
    BY <1>4, <1>7, <2>2
  <2> QED
    BY <1>2, <2>3, QuietStep
<1> QED
  BY <1>2, <1>6, <1>7

(* The commit of a chunk.                                                  *)
LEMMA CommitStep ==
  ASSUME Base, Exactly, Base', Exactly', Carried, reused' = reused, Controls, XferCommit
  PROVE  Carried' /\ [Heard!Next]_(Heard!vars)
<1> DEFINE r == Committed
           s == IF snd_pcm_playback_hw_avail(r) >= 1 THEN snd_pcm_start(r) ELSE r
           x == snd_pcm_update_state(s)
           left == call.size - call.frames
           rest == call.avail - call.frames
           d == call'
           w == rt'
           j == irq'
<1>1. /\ Sound(rt) /\ Precise(rt, irq, call) /\ call \in Calls /\ ChunkFits(call)
      /\ Begun(rt, call) /\ Clean(rt, call) /\ Precise(w, j, d)
  BY BothEnds DEF Base, Exactly, Carried
<1>2. Taken(irq, j) /\ call.pc = "commit"
  BY SectionTaken DEF XferCommit
<1>3. \/ ~pcm_accessible_state(rt) /\ w = rt /\ d = Idle
      \/ pcm_accessible_state(rt) /\ w = x /\ d = Idle
      \/ pcm_accessible_state(rt) /\ w = s /\ left # 0 /\ d = NextChunk(s, left, rest)
  BY DEF XferCommit, Return
<1>4. Idle.pc = "idle" /\ Chunk(Idle) = 0 /\ \A v : Begun(v, Idle)
  BY DEF Idle, Chunk, Begun
<1>5. /\ Sound(r) /\ r.state = rt.state /\ r.starved = rt.starved
      /\ r.queued = IF rt.starved THEN rt.queued ELSE rt.queued + call.frames
  BY CommittedSound
<1>6. Clean(r, Idle)
  BY <1>1, <1>2, <1>4, CommittedClean
<1>7. /\ call.frames >= 1 /\ call.frames \in Nat /\ call.size \in Nat
      /\ call.avail \in 0 .. Boundary
      /\ call.frames <= call.avail /\ call.frames <= call.size
  BY <1>1, <1>2, Sizes DEF Begun, ChunkFits, Calls
<1>8. CASE ~pcm_accessible_state(rt)
  <2>1. rt' = rt /\ call'.pc # "commit" /\ Begun(rt', call')
    BY <1>3, <1>4, <1>8
  <2> QED
    BY <1>2, <1>8, <2>1, RefuseStep
<1>9. CASE pcm_accessible_state(rt)
  <2>1. /\ Precise(r, irq, Idle)
        /\ ~rt.starved => rest + r.lag + r.queued <= BufferSize
    <3>1. OnTime(rt, irq)
      BY <1>1 DEF Precise
    <3> QED
      BY <1>1, <1>2, <1>4, <1>9, <3>1, CommittedPrecise
  <2> HIDE DEF r, j
  <2>2. /\ Sound(s) /\ SameQueue(r, s) /\ Precise(s, j, Idle) /\ s.lag = r.lag
        /\ \/ s = r
           \/ s.state = "RUNNING" /\ r.state = "PREPARED"
              /\ s = snd_pcm_start(r) /\ snd_pcm_playback_avail(r) < BufferSize
    <3>1. SameQueue(r, r) /\ Idle.pc \notin {"copy", "commit"}
      BY <1>4 DEF SameQueue
    <3>2. Precise(r, j, Idle)
      BY <1>2, <2>1, TakenOnTime DEF Precise
    <3>3. /\ Precise(snd_pcm_start(r), j, Idle) /\ snd_pcm_start(r).lag = r.lag
          /\ Sound(snd_pcm_start(r))
      BY <1>2, <1>5, <2>1, <3>1, StartedPrecise, StartSound
    <3> QED
      BY <1>5, <3>1, <3>2, <3>3, StartKeeps
  <2>3. Clean(s, Idle)
    <3>1. ASSUME r.state = "PREPARED" PROVE AtStart(r) /\ Even(r)
      BY <2>1, <3>1 DEF Precise, AtStart, Writing, pcm_accessible_state
    <3> QED
      BY <1>4, <1>5, <1>6, <2>2, <3>1, StartClean
  <2> HIDE DEF s
  <2>4. CASE rt.starved
    <3>1. s.state = rt.state /\ s.starved
      <4>1. r.state # "PREPARED"
        BY <1>5, <2>1, <2>4 DEF Precise, AtStart
      <4> QED
        BY <1>5, <2>2, <2>4, <4>1 DEF SameQueue
    <3>2. x.starved /\ x.state \in {rt.state, "OPEN", "XRUN"}
      <4>1. SamePointers(s, x)
        BY <2>2, UpdateStateKeeps DEF Sound
      <4>2. x.state \in {s.state, "OPEN", "XRUN"}
        BY <2>2, StopKeeps DEF snd_pcm_update_state, Sound
      <4> QED
        BY <3>1, <4>1, <4>2 DEF SamePointers, SameQueue
    <3>3. d.pc # "commit" /\ (w = x \/ w = s)
      BY <1>3, <1>4, <1>9 DEF NextChunk, Idle
    <3>4. Begun(w, d)
      <4> HIDE DEF x, rest, left
      <4>1. CASE d = Idle
        BY <1>4, <4>1
      <4>2. CASE w = s /\ left # 0 /\ d = NextChunk(s, left, rest)
        <5>1. left \in Nat /\ left >= 1 /\ rest \in 0 .. Boundary
          BY <1>7, <4>2, Sizes DEF left, rest
        <5> QED
          BY <2>2, <3>1, <4>2, <5>1, ChunkBegun
      <4> QED
        BY <1>3, <1>9, <4>1, <4>2
    <3>5. rt'.starved /\ rt'.state \in {rt.state, "OPEN", "XRUN"}
      BY <3>1, <3>2, <3>3
    <3> QED
      BY <1>2, <2>4, <3>3, <3>4, <3>5, RefuseStep
  <2>5. CASE ~rt.starved
    <3>1. s.queued = rt.queued + call.frames /\ ~s.starved
      BY <1>5, <2>2, <2>5 DEF SameQueue
    <3>2. pcm_accessible_state(s)
      BY <1>5, <1>9, <2>2 DEF pcm_accessible_state
    <3>3. Even(s) /\ Ahead(s.pos, s.queued, s.appl_ptr)
      BY <2>2, <3>1, <3>2, QueueEnds DEF Precise, Writing
    <3>4. rt.queued \in Nat /\ s.lag \in Nat /\ BufferSize \in Nat
      BY <1>1, <2>2, Numbers, Sizes
    <3>5. x = s
      <4>1. snd_pcm_playback_avail(s) = BufferSize - (s.lag + s.queued)
        BY <2>2, <3>3, AvailIs
      <4>2. ~(snd_pcm_playback_avail(s) >= BufferSize)
        BY <1>7, <3>1, <3>4, <4>1
      <4> QED
        BY <4>2 DEF snd_pcm_update_state
    <3> HIDE DEF x, left, rest
    <3>6. Begun(w, d) /\ d.pc # "commit" /\ Chunk(d) = 0
      <4>1. CASE d = Idle
        BY <1>4, <4>1
      <4>2. CASE w = s /\ left # 0 /\ d = NextChunk(s, left, rest)
        <5>1. left \in Nat /\ left >= 1 /\ rest \in 0 .. Boundary
          BY <1>7, <4>2, Sizes DEF left, rest
        <5>2. rest + s.queued <= BufferSize
          <6>1. rest + s.lag + s.queued <= BufferSize
            BY <2>1, <2>2, <2>5 DEF SameQueue
          <6>2. s.queued \in Nat
            BY <2>2, Numbers
          <6> QED
            BY <3>4, <5>1, <6>1, <6>2, Sizes
        <5>3. Begun(w, d) /\ d.pc \in {"idle", "copy"}
          BY <2>2, <3>3, <4>2, <5>1, <5>2, ChunkBegun
        <5> QED
          BY <5>3 DEF Chunk
      <4> QED
        BY <1>3, <1>9, <4>1, <4>2
    <3>7. w = s
      BY <1>3, <1>9, <3>5
    <3>8. Clean(w, d)
      BY <1>4, <2>3, <3>6, <3>7 DEF Clean
    <3>9. SameQueue(Committed, rt') /\ (rt'.state = rt.state \/ rt'.state = "RUNNING")
      BY <1>5, <2>2, <3>7 DEF r
    <3> QED
      BY <1>2, <1>9, <2>5, <3>6, <3>8, <3>9, AcceptStep
  <2> QED
    BY <2>4, <2>5
<1> QED
  BY <1>8, <1>9

(* A commit into a stream that the card refuses to start.                  *)
LEMMA StartFailsStep ==
  ASSUME Base, Exactly, Base', Exactly', Carried, reused' = reused, Controls, XferStartFails
  PROVE  Carried' /\ [Heard!Next]_(Heard!vars)
<1>1. /\ call.pc = "commit" /\ rt.state = "PREPARED" /\ rt' = Committed /\ call' = Idle
  BY DEF XferStartFails, Return, Section
<1>2. pcm_accessible_state(rt) /\ ~rt.starved /\ Clean(rt, call)
  BY <1>1 DEF Exactly, Carried, Precise, AtStart, pcm_accessible_state
<1>3. Idle.pc = "idle" /\ Chunk(Idle) = 0 /\ Begun(rt', Idle)
  BY DEF Idle, Chunk, Begun
<1>4. SameQueue(Committed, rt') /\ rt'.state = rt.state /\ Clean(rt', call')
  BY <1>1, <1>2, <1>3, CommittedSound, CommittedClean DEF SameQueue
<1> QED
  BY <1>1, <1>2, <1>3, <1>4, AcceptStep

(* Every step that neither plays nor copies.                               *)
LEMMA ControlsStep ==
  ASSUME Timely, Base, Exactly, Base', Exactly', Carried, reused' = reused, Controls
  PROVE  Carried' /\ [Heard!Next]_(Heard!vars)
<1> DEFINE goal == Carried' /\ [Heard!Next]_(Heard!vars)
<1>1. /\ Sound(rt) /\ Precise(rt, irq, call) /\ call \in Calls /\ ChunkFits(call)
      /\ Begun(rt, call) /\ ~reused
      /\ call.pc \notin {"do_reset", "post_reset", "close_prepare"}
  BY DEF Base, Exactly, Carried
<1>2. ASSUME Quiet(rt, rt'), call' = call PROVE goal
  BY <1>1, <1>2, QuietBegun, QuietStep
<1>3. ASSUME Section("idle"), call' = call, Quiet(rt, rt') \/ Emptied(rt, rt') PROVE goal
  <2>1. call.pc = "idle"
    BY <1>3 DEF Section
  <2>2. Begun(rt', call')
    BY <1>3, <2>1 DEF Begun
  <2> QED
    BY <1>2, <1>3, <2>1, <2>2, EmptiedStep
<1>4. CASE snd_pcm_period_elapsed
  <2>1. /\ irq # "none" /\ call' = call
        /\ rt' = IF snd_pcm_running(rt) THEN snd_pcm_update_hw_ptr0(rt, TRUE) ELSE rt
    BY <1>4 DEF snd_pcm_period_elapsed
  <2>2. Quiet(rt, rt')
    BY <1>1, <2>1, QuietSame, QuietInterrupt DEF snd_pcm_running
  <2> QED
    BY <1>2, <2>1, <2>2
<1>5. CASE snd_pcm_stop_xrun
  <2>1. rt' = snd_pcm_stop(rt, "XRUN") /\ call' = call /\ rt \in Runtime
    BY <1>1, <1>5 DEF snd_pcm_stop_xrun, Sound
  <2>2. Quiet(rt, rt')
    BY <2>1, StopKeeps, QuietStop
  <2> QED
    BY <1>2, <2>1, <2>2
<1>6. CASE OSS32_WavePrepare
  <2>1. Section("idle") /\ call' = call /\ rt' = snd_pcm_prepare(rt)
    BY <1>6 DEF OSS32_WavePrepare, Call
  <2> QED
    BY <1>1, <1>3, <2>1, PrepareEmpties
<1>7. CASE OSS32_WaveStart
  <2>1. call.pc = "idle" /\ call' = call /\ rt' = snd_pcm_start(rt)
    BY <1>7 DEF OSS32_WaveStart, Call, Section
  <2> QED
    BY <2>1, StartStep
<1>8. CASE OSS32_WaveStop
  <2>1. Section("idle") /\ call' = call /\ rt' = snd_pcm_drop(rt)
    BY <1>8 DEF OSS32_WaveStop, Call
  <2> QED
    BY <1>1, <1>3, <2>1, DropKeeps, QuietStop
<1>9. CASE OSS32_WavePause
  <2>1. Section("idle") /\ call' = call /\ rt' = pause_release(rt)
    BY <1>9 DEF OSS32_WavePause, Call
  <2> QED
    BY <1>1, <1>3, <2>1, QuietRelease
<1>10. CASE OSS32_WaveResume
  <2>1. Section("idle") /\ call' = call /\ rt' \in {pause_push(rt), pause_refused(rt)}
    BY <1>10 DEF OSS32_WaveResume, Call
  <2> QED
    BY <1>1, <1>3, <2>1, QuietPush
<1>11. CASE OSS32_WaveGetStatus
  <2>1. Section("idle") /\ call' = call /\ rt' = snd_pcm_update_hw_ptr(rt)
    BY <1>11 DEF OSS32_WaveGetStatus, Call
  <2> QED
    BY <1>1, <1>3, <2>1, QuietUpdate
<1>12. CASE OSS32_WaveSetHwParams
  <2>1. Section("idle") /\ call' = call
    BY <1>12 DEF OSS32_WaveSetHwParams
  <2> QED
    BY <1>3, <1>12, <2>1, HwParamsEmpties
<1>13. CASE snd_pcm_release
  <2>1. Section("idle") /\ call' = call /\ rt' = Fresh0
    BY <1>13 DEF snd_pcm_release
  <2>2. Emptied(rt, rt')
    BY <2>1 DEF Fresh0, Emptied
  <2> QED
    BY <1>3, <2>1, <2>2
<1>14. CASE OSS32_WaveClose
  BY <1>1, <1>14 DEF OSS32_WaveClose
<1>15. ASSUME NEW n \in ReqSizes, OSS32_WaveAddBuffer(n) PROVE goal
  <2> DEFINE u == snd_pcm_update_hw_ptr(rt)
             size == IF rt.state = "OPEN" THEN 0 ELSE Least(n, snd_pcm_playback_avail(u))
             pc == IF rt.state = "XRUN" THEN "prepare" ELSE "write"
             e == [Idle EXCEPT !.size = size, !.pc = pc]
  <2>1. /\ call.pc = "idle" /\ rt' = u
        /\ call' = IF size = 0 THEN Idle ELSE e
    BY <1>15 DEF OSS32_WaveAddBuffer, Section
  <2>2. Sound(u) /\ Quiet(rt, u)
    BY <1>1, QuietUpdate, UpdateHwSound
  <2> HIDE DEF u
  <2>3. size \in Nat
    BY <2>2, AvailType, StreamAssumption DEF Least, Sound
  <2>4. pc \in {"prepare", "write"}
    OBVIOUS
  <2> HIDE DEF size, pc
  <2>5. Idle.pc = "idle" /\ e.pc = pc /\ e.size = size
    BY DEF Idle
  <2> HIDE DEF e
  <2>6. Begun(u, Idle) /\ (size # 0 => Begun(u, e))
    BY <2>3, <2>4, <2>5 DEF Begun
  <2>7. Quiet(rt, rt') /\ Begun(rt', call') /\ call'.pc # "commit"
    BY <2>1, <2>2, <2>4, <2>5, <2>6
  <2> QED
    BY <2>1, <2>7, QuietStep
<1>16. CASE CloseDoReset \/ ClosePostReset \/ ClosePrepare
  BY <1>1, <1>16 DEF CloseDoReset, ClosePostReset, ClosePrepare, Section
<1>17. CASE AddBufferPrepare
  <2>1. /\ call.pc = "prepare" /\ rt' = snd_pcm_prepare(rt)
        /\ call' = [call EXCEPT !.pc = "write"]
    BY <1>17 DEF AddBufferPrepare, Goto, Section
  <2>2. call'.pc = "write" /\ call'.size = call.size
    BY <1>1, <2>1 DEF Calls
  <2>3. Begun(rt', call')
    BY <1>1, <2>1, <2>2 DEF Begun
  <2>4. Quiet(rt, rt') \/ Emptied(rt, rt')
    BY <1>1, <2>1, PrepareEmpties
  <2> QED
    BY <2>1, <2>2, <2>3, <2>4, QuietStep, EmptiedStep
<1>18. CASE XferBegin
  BY <1>18, BeginStep
<1>19. CASE XferCommit
  BY <1>19, CommitStep
<1>20. CASE XferStartFails
  BY <1>20, StartFailsStep
<1>21. Control
  BY DEF Controls
<1>22. goal
  BY <1>4, <1>5, <1>6, <1>7, <1>8, <1>9, <1>10, <1>11, <1>12, <1>13, <1>14, <1>15, <1>16,
     <1>17, <1>18, <1>19, <1>20, <1>21 DEF Control, CallSection
<1> QED
  BY <1>22

(* Before the first call.                                                  *)
LEMMA ClientStarts ==
  ASSUME Reuse \subseteq {FALSE}, ClientInit
  PROVE  Base /\ Exactly /\ Carried /\ Heard!Init
<1>1. Init /\ area = [k \in Slots |-> Silence] /\ offered = <<>> /\ heard = Silence
  BY DEF ClientInit
<1>2. Base /\ Exactly
  BY <1>1, InitBase, InitExactly
<1>3. /\ ~reused /\ rt.state = "OPEN" /\ rt.starved = FALSE /\ rt.queued = 0
      /\ call.pc = "idle"
  BY <1>1 DEF Init, Fresh0, Idle
<1>4. Labelled(rt, area) /\ Clean(rt, call) /\ Begun(rt, call)
      /\ Offers(rt, call, area, offered)
  BY <1>1, <1>3 DEF Labelled, Clean, Begun, Offers
<1>5. Carried
  BY <1>3, <1>4 DEF Carried
<1>6. QueueMap = <<>> /\ StateMap = "off"
  <2>1. [k \in 1 .. 0 |-> area[(rt.pos + (k - 1)) % BufferSize]] = <<>>
    OBVIOUS
  <2> QED
    BY <1>3, <2>1 DEF QueueMap, StateMap
<1>7. Heard!Init
  BY <1>1, <1>3, <1>6 DEF Heard!Init
<1> QED
  BY <1>2, <1>5, <1>7

(* Every step of the stream with its frames.                               *)
LEMMA ClientSteps ==
  ASSUME Timely, Base, Exactly, Carried, [ClientNext]_clientVars
  PROVE  Base' /\ Exactly' /\ Carried' /\ [Heard!Next]_(Heard!vars)
<1>1. [Next]_vars
  BY DEF ClientNext, Plays, Copies, Controls, Next, clientVars, vars
<1>2. Base' /\ Exactly' /\ reused' = reused
  BY <1>1, StepBase, StepExactly, ReusedKept
<1>3. CASE Plays
  BY <1>2, <1>3, PlaysStep
<1>4. CASE Copies
  BY <1>2, <1>4, CopiesStep
<1>5. CASE Controls
  BY <1>2, <1>5, ControlsStep
<1>6. CASE UNCHANGED clientVars
  <2>1. UNCHANGED <<rt, irq, call, reused, area, offered, heard>>
    BY <1>6 DEF clientVars
  <2>2. Carried'
    BY <2>1 DEF Carried
  <2>3. QueueMap' = QueueMap /\ StateMap' = StateMap
    BY <2>1, Mapped
  <2>4. UNCHANGED Heard!vars
    BY <2>1, <2>3 DEF Heard!vars
  <2> QED
    BY <1>2, <2>2, <2>4
<1> QED
  BY <1>2, <1>3, <1>4, <1>5, <1>6 DEF ClientNext

(* A stream whose handle is not reused, and whose interrupt the jiffies    *)
(* cannot mislead, plays the frames that its client wrote in their order,  *)
(* each once and unchanged, until they run out, and after the last one     *)
(* silence.                                                                *)
THEOREM PcmImplementsPlayback ==
  ASSUME Timely, Reuse \subseteq {FALSE}
  PROVE  ClientSpec => ImplementsPlayback
<1>1. ClientInit => Base /\ Exactly /\ Carried /\ Heard!Init
  BY ClientStarts
<1>2. Base /\ Exactly /\ Carried /\ [ClientNext]_clientVars
        => (Base /\ Exactly /\ Carried)' /\ [Heard!Next]_(Heard!vars)
  BY ClientSteps
<1> QED
  BY <1>1, <1>2, PTL DEF ClientSpec, ImplementsPlayback, Heard!Spec
=============================================================================
