--------------------------- MODULE CapabilityProofs ---------------------------
(***************************************************************************)
(* The settings of a source, for every resolution a request may ask for    *)
(* and every set of settings a driver may refuse.                          *)
(***************************************************************************)
EXTENDS Capabilities, SequenceTheorems, TLAPS

Items == Nat \X Nat
Sent == Caps \X Items

(* When each setting is sent, 0 for never.  *)
Place(c) ==
  CASE c = "PIXELTYPE" -> 1 [] c = "XRESOLUTION" -> 2 [] c = "YRESOLUTION" -> 3
    [] c = "XFERMECH" -> 4 [] c = "COMPRESSION" -> 5 [] c = "PIXELFLAVOR" -> 6
    [] c = "BITORDER" -> 7
    [] c = "FEEDERENABLED" -> (IF options.adf THEN 8 ELSE 0)
    [] c = "AUTOFEED" -> (IF options.adf THEN 9 ELSE 0)
    [] c = "XFERCOUNT" -> (IF options.adf THEN 10 ELSE 8)
    [] c = "DUPLEXENABLED" -> (IF ~options.duplex THEN 0 ELSE IF options.adf THEN 11 ELSE 9)

(* What a request may ask for.  *)
Requested ==
  /\ options.resolution \in Nat
  /\ options.color \in ColorModes
  /\ options.adf \in BOOLEAN
  /\ options.duplex \in BOOLEAN

(* How far the source has been told.  *)
CapTypes ==
  /\ Requested
  /\ told \in 0..Len(SettingsSent)
  /\ DOMAIN inForce = Caps

(* What has been sent holds, and what has not is the driver's choice.  *)
SoFar ==
  \A c \in Caps :
    IF Place(c) # 0 /\ Place(c) <= told
      THEN \/ inForce[c] \in Wanted[c]
           \/ c \in unwilling
           \/ c = "AUTOFEED" /\ "FEEDERENABLED" \in unwilling
      ELSE inForce[c] = Default

(* The elements of two sequences put together. *)
LEMMA Joined ==
  ASSUME NEW s \in Seq(Sent), NEW t \in Seq(Sent)
  PROVE  /\ s \o t \in Seq(Sent) /\ Len(s \o t) = Len(s) + Len(t)
         /\ \A i \in 1..Len(s) : (s \o t)[i] = s[i]
         /\ \A i \in 1..Len(t) : (s \o t)[Len(s) + i] = t[i]
  BY ConcatProperties

(* The halves of the items are natural numbers, and what each stands for.  *)
LEMMA ItemValues ==
  /\ I16(-1) = <<65535, 0>> /\ I16(1) = <<1, 0>>
  /\ \A n \in 0..2 : U16(n) = <<n, 0>>
  /\ 2^15 = 32768 /\ 2^16 = 65536
  <1>1. 2^15 = 32768 /\ 2^16 = 65536
    OBVIOUS
  <1>2. 1 % 65536 = 1 /\ 0 % 65536 = 0 /\ 2 % 65536 = 2
    OBVIOUS
  <1>3. (-1 + 65536) % 65536 = 65535 /\ (1 + 65536) % 65536 = 1
    OBVIOUS
  <1>4. \A n \in 0..2 : n % 65536 = n
    BY <1>2
  <1>5. QED
    BY <1>1, <1>2, <1>3, <1>4 DEF U16, I16

(* What the client asks for, setting by setting. *)
LEMMA WantedValues ==
  ASSUME Requested
  PROVE  /\ Wanted["PIXELTYPE"] = {U16(PixelType(options.color))}
         /\ PixelType(options.color) \in 0..2 /\ PixelTypeNamed(options.color) = PixelType(options.color)
         /\ \A c \in {"XRESOLUTION", "YRESOLUTION"} : Fix32(options.resolution) \in Wanted[c]
         /\ Fix32(options.resolution) \in Items
         /\ Wanted["XFERMECH"] = {U16(2)} /\ Wanted["COMPRESSION"] = {U16(0)}
         /\ Wanted["PIXELFLAVOR"] = {U16(0)} /\ Wanted["BITORDER"] = {U16(1)}
         /\ options.adf => /\ Wanted["FEEDERENABLED"] = {U16(1)}
                           /\ Wanted["AUTOFEED"] = {U16(1)}
                           /\ Wanted["XFERCOUNT"] = {I16(-1)}
         /\ ~options.adf => /\ Wanted["FEEDERENABLED"] = {Default}
                            /\ Wanted["AUTOFEED"] = {Default}
                            /\ Wanted["XFERCOUNT"] = {I16(1)}
         /\ Wanted["DUPLEXENABLED"] = {IF options.duplex THEN U16(1) ELSE Default}
  <1> DEFINE always == [PIXELTYPE |-> {<<CASE options.color = "color" -> 2
                                    [] options.color = "grayscale" -> 1
                                    [] options.color = "bw" -> 0, 0>>},
                 XFERMECH |-> {<<2, 0>>}, COMPRESSION |-> {<<0, 0>>},
                 PIXELFLAVOR |-> {<<0, 0>>}, BITORDER |-> {<<1, 0>>}]
  <1>1. DOMAIN always = {"PIXELTYPE", "XFERMECH", "COMPRESSION", "PIXELFLAVOR", "BITORDER"}
    OBVIOUS
  <1>2. \A c \in Caps : Wanted[c] =
        IF c \in DOMAIN always THEN always[c]
        ELSE IF c \in {"XRESOLUTION", "YRESOLUTION"} THEN
          IF options.resolution < 2^15 THEN {<<options.resolution, 0>>}
          ELSE (1..(2^15 - 1)) \X (0..(2^16 - 1))
        ELSE IF c = "XFERCOUNT" THEN {IF options.adf THEN <<2^16 - 1, 0>> ELSE <<1, 0>>}
        ELSE IF (c = "DUPLEXENABLED" /\ options.duplex) \/ (c # "DUPLEXENABLED" /\ options.adf)
             THEN {<<1, 0>>} ELSE {Default}
    BY DEF Wanted
  <1>3. always.XFERMECH = {<<2, 0>>} /\ always.COMPRESSION = {<<0, 0>>}
        /\ always.PIXELFLAVOR = {<<0, 0>>} /\ always.BITORDER = {<<1, 0>>}
    OBVIOUS
  <1>4. PixelType(options.color) \in 0..2 /\ PixelTypeNamed(options.color) = PixelType(options.color)
        /\ always.PIXELTYPE = {<<PixelType(options.color), 0>>}
    BY DEF Requested, ColorModes, PixelType, PixelTypeNamed
  <1> HIDE DEF always
  <1>5. /\ Wanted["PIXELTYPE"] = always["PIXELTYPE"] /\ Wanted["XFERMECH"] = always["XFERMECH"]
        /\ Wanted["COMPRESSION"] = always["COMPRESSION"]
        /\ Wanted["PIXELFLAVOR"] = always["PIXELFLAVOR"] /\ Wanted["BITORDER"] = always["BITORDER"]
    <2>1. \A c \in Caps : c \in DOMAIN always => Wanted[c] = always[c]
      BY <1>2
    <2>2. QED
      BY <1>1, <2>1 DEF Caps
  <1>6. /\ Wanted["PIXELTYPE"] = {U16(PixelType(options.color))}
        /\ Wanted["XFERMECH"] = {U16(2)} /\ Wanted["COMPRESSION"] = {U16(0)}
        /\ Wanted["PIXELFLAVOR"] = {U16(0)} /\ Wanted["BITORDER"] = {U16(1)}
    <2>1. /\ U16(PixelType(options.color)) = <<PixelType(options.color), 0>>
          /\ U16(2) = <<2, 0>> /\ U16(0) = <<0, 0>> /\ U16(1) = <<1, 0>>
      <3>1. 0 \in 0..2 /\ 1 \in 0..2 /\ 2 \in 0..2
        OBVIOUS
      <3>2. QED
        BY <1>4, <3>1, ItemValues
    <2>2. QED
      BY <1>3, <1>4, <1>5, <2>1
  <1>7. ASSUME NEW c \in {"XRESOLUTION", "YRESOLUTION"}
        PROVE  Fix32(options.resolution) \in Wanted[c]
    <2>1. c \in Caps /\ c \notin DOMAIN always
      BY <1>1 DEF Caps
    <2>2. Wanted[c] = IF options.resolution < 2^15 THEN {<<options.resolution, 0>>}
                      ELSE (1..(2^15 - 1)) \X (0..(2^16 - 1))
      BY <1>2, <2>1
    <2>3. CASE options.resolution < 2^15
      BY <2>2, <2>3 DEF Fix32
    <2>4. CASE ~(options.resolution < 2^15)
      <3>1. (2^15 - 1) \in 1..(2^15 - 1) /\ (2^16 - 1) \in 0..(2^16 - 1)
        <4>1. 32767 \in 1..32767 /\ 65535 \in 0..65535 /\ 32768 - 1 = 32767 /\ 65536 - 1 = 65535
          OBVIOUS
        <4>2. QED
          BY <4>1, ItemValues
      <3>2. Fix32(options.resolution) = <<2^15 - 1, 2^16 - 1>>
        BY <2>4 DEF Fix32
      <3>3. QED
        BY <2>2, <2>4, <3>1, <3>2
    <2>5. QED
      BY <2>3, <2>4
  <1>8. Fix32(options.resolution) \in Items
    BY ItemValues DEF Fix32, Items, Requested
  <1> DEFINE W(c) == IF c = "XFERCOUNT" THEN {IF options.adf THEN <<2^16 - 1, 0>> ELSE <<1, 0>>}
                     ELSE IF \/ c = "DUPLEXENABLED" /\ options.duplex
                             \/ c # "DUPLEXENABLED" /\ options.adf
                          THEN {<<1, 0>>} ELSE {Default}
  <1>9. \A c \in {"XFERCOUNT", "FEEDERENABLED", "AUTOFEED", "DUPLEXENABLED"} : Wanted[c] = W(c)
    <2>1. ASSUME NEW c \in {"XFERCOUNT", "FEEDERENABLED", "AUTOFEED", "DUPLEXENABLED"}
          PROVE  c \in Caps /\ c \notin DOMAIN always /\ c \notin {"XRESOLUTION", "YRESOLUTION"}
      BY <1>1 DEF Caps
    <2>2. QED
      BY <1>2, <2>1
  <1>10. W("XFERCOUNT") = {IF options.adf THEN I16(-1) ELSE I16(1)}
    <2>1. I16(-1) = <<2^16 - 1, 0>> /\ I16(1) = <<1, 0>>
      <3>1. 65536 - 1 = 65535
        OBVIOUS
      <3>2. QED
        BY <3>1, ItemValues
    <2>2. QED
      BY <2>1
  <1>11. /\ W("FEEDERENABLED") = {IF options.adf THEN U16(1) ELSE Default}
         /\ W("AUTOFEED") = {IF options.adf THEN U16(1) ELSE Default}
         /\ W("DUPLEXENABLED") = {IF options.duplex THEN U16(1) ELSE Default}
    <2>1. U16(1) = <<1, 0>>
      <3>1. 1 \in 0..2
        OBVIOUS
      <3>2. QED
        BY <3>1, ItemValues
    <2>2. W("FEEDERENABLED") = IF options.adf THEN {<<1, 0>>} ELSE {Default}
      OBVIOUS
    <2>3. W("AUTOFEED") = IF options.adf THEN {<<1, 0>>} ELSE {Default}
      OBVIOUS
    <2>4. W("DUPLEXENABLED") = IF options.duplex THEN {<<1, 0>>} ELSE {Default}
      OBVIOUS
    <2> HIDE DEF W
    <2>5. QED
      BY <2>1, <2>2, <2>3, <2>4
  <1> HIDE DEF W
  <1>12. QED
    BY <1>4, <1>6, <1>7, <1>8, <1>9, <1>10, <1>11

(* The list of settings: each at its place, with the item that is wanted.  *)
LEMMA Listed ==
  ASSUME Requested
  PROVE  /\ SettingsSent \in Seq(Sent)
         /\ \A i \in 1..Len(SettingsSent) :
              LET c == SettingsSent[i][1] IN
                c \in Caps /\ Place(c) = i /\ SettingsSent[i][2] \in Wanted[c]
         /\ \A c \in Caps : Place(c) \in 0..Len(SettingsSent)
  <1> DEFINE pixel == U16(PixelType(options.color))
             res == Fix32(options.resolution)
             common == << <<"PIXELTYPE", pixel>>, <<"XRESOLUTION", res>>, <<"YRESOLUTION", res>>,
                          <<"XFERMECH", U16(2)>>, <<"COMPRESSION", U16(0)>>,
                          <<"PIXELFLAVOR", U16(0)>>, <<"BITORDER", U16(1)>> >>
             feeder == Feeder(options.adf)
             duplex == Duplex(options.duplex)
  <1>1. SettingsSent = common \o feeder \o duplex
    BY WantedValues DEF SettingsSent, Configure, ConfigureSidecar
  <1>2. /\ pixel \in Items /\ res \in Items
        /\ U16(2) \in Items /\ U16(0) \in Items /\ U16(1) \in Items
        /\ I16(-1) \in Items /\ I16(1) \in Items
    <2>1. \A n \in 0..2 : U16(n) \in Items
      BY ItemValues DEF Items
    <2>2. 0 \in 0..2 /\ 1 \in 0..2 /\ 2 \in 0..2
      OBVIOUS
    <2>3. I16(-1) \in Items /\ I16(1) \in Items
      BY ItemValues DEF Items
    <2>4. QED
      BY <2>1, <2>2, <2>3, WantedValues
  <1>3. /\ common \in Seq(Sent) /\ Len(common) = 7
        /\ common[1] = <<"PIXELTYPE", pixel>> /\ common[2] = <<"XRESOLUTION", res>>
        /\ common[3] = <<"YRESOLUTION", res>> /\ common[4] = <<"XFERMECH", U16(2)>>
        /\ common[5] = <<"COMPRESSION", U16(0)>> /\ common[6] = <<"PIXELFLAVOR", U16(0)>>
        /\ common[7] = <<"BITORDER", U16(1)>>
    <2>1. /\ <<"PIXELTYPE", pixel>> \in Sent /\ <<"XRESOLUTION", res>> \in Sent
          /\ <<"YRESOLUTION", res>> \in Sent /\ <<"XFERMECH", U16(2)>> \in Sent
          /\ <<"COMPRESSION", U16(0)>> \in Sent /\ <<"PIXELFLAVOR", U16(0)>> \in Sent
          /\ <<"BITORDER", U16(1)>> \in Sent
      BY <1>2 DEF Sent, Caps
    <2> HIDE DEF pixel, res
    <2>2. QED
      BY <2>1
  <1>4. /\ feeder \in Seq(Sent)
        /\ options.adf => /\ Len(feeder) = 3 /\ feeder[1] = <<"FEEDERENABLED", U16(1)>>
                          /\ feeder[2] = <<"AUTOFEED", U16(1)>>
                          /\ feeder[3] = <<"XFERCOUNT", I16(-1)>>
        /\ ~options.adf => Len(feeder) = 1 /\ feeder[1] = <<"XFERCOUNT", I16(1)>>
    <2>1. /\ <<"FEEDERENABLED", U16(1)>> \in Sent /\ <<"AUTOFEED", U16(1)>> \in Sent
          /\ <<"XFERCOUNT", I16(-1)>> \in Sent /\ <<"XFERCOUNT", I16(1)>> \in Sent
      BY <1>2 DEF Sent, Caps
    <2>2. QED
      BY <2>1 DEF Feeder, Flag
  <1>5. /\ duplex \in Seq(Sent)
        /\ options.duplex => Len(duplex) = 1 /\ duplex[1] = <<"DUPLEXENABLED", U16(1)>>
        /\ ~options.duplex => Len(duplex) = 0
    <2>1. <<"DUPLEXENABLED", U16(1)>> \in Sent
      BY <1>2 DEF Sent, Caps
    <2>2. QED
      BY <2>1 DEF Duplex, Flag
  <1> HIDE DEF common, feeder, duplex, pixel, res
  <1> DEFINE front == common \o feeder
  <1>6. /\ front \in Seq(Sent) /\ Len(front) = 7 + Len(feeder)
        /\ \A i \in 1..7 : front[i] = common[i]
        /\ \A i \in 1..Len(feeder) : front[7 + i] = feeder[i]
    <2>1. common \in Seq(Sent) /\ feeder \in Seq(Sent) /\ Len(common) = 7
      BY <1>3, <1>4
    <2>2. /\ front \in Seq(Sent) /\ Len(front) = Len(common) + Len(feeder)
          /\ \A i \in 1..Len(common) : front[i] = common[i]
          /\ \A i \in 1..Len(feeder) : front[Len(common) + i] = feeder[i]
      BY ONLY <2>1, Joined
    <2>3. QED
      BY <2>1, <2>2
  <1> HIDE DEF front
  <1>7. /\ SettingsSent \in Seq(Sent) /\ Len(SettingsSent) = Len(front) + Len(duplex)
        /\ \A i \in 1..Len(front) : SettingsSent[i] = front[i]
        /\ \A i \in 1..Len(duplex) : SettingsSent[Len(front) + i] = duplex[i]
    BY <1>1, <1>5, <1>6, Joined DEF front
  <1> DEFINE Right(i) == LET c == SettingsSent[i][1] IN
                           c \in Caps /\ Place(c) = i /\ SettingsSent[i][2] \in Wanted[c]
  <1>8. Len(feeder) = (IF options.adf THEN 3 ELSE 1) /\ Len(duplex) = (IF options.duplex THEN 1 ELSE 0)
    BY <1>4, <1>5 DEF Requested
  <1>9. \A i \in 1..7 : SettingsSent[i] = common[i]
    BY <1>6, <1>7, <1>8
  <1>10. ASSUME NEW i \in 1..7 PROVE Right(i)
    <2>1. CASE i = 1
      BY <1>3, <1>9, <2>1, WantedValues DEF Place, Caps, pixel
    <2>2. CASE i = 2
      BY <1>3, <1>9, <2>2, WantedValues DEF Place, Caps, res
    <2>3. CASE i = 3
      BY <1>3, <1>9, <2>3, WantedValues DEF Place, Caps, res
    <2>4. CASE i = 4
      BY <1>3, <1>9, <2>4, WantedValues DEF Place, Caps
    <2>5. CASE i = 5
      BY <1>3, <1>9, <2>5, WantedValues DEF Place, Caps
    <2>6. CASE i = 6
      BY <1>3, <1>9, <2>6, WantedValues DEF Place, Caps
    <2>7. CASE i = 7
      BY <1>3, <1>9, <2>7, WantedValues DEF Place, Caps
    <2>8. QED
      BY <2>1, <2>2, <2>3, <2>4, <2>5, <2>6, <2>7
  <1>11. ASSUME NEW j \in 1..Len(feeder) PROVE Right(7 + j)
    <2>1. SettingsSent[7 + j] = feeder[j]
      <3>1. Len(feeder) \in Nat /\ Len(front) = 7 + Len(feeder)
        BY <1>6, <1>8
      <3>2. 7 + j \in 1..Len(front)
        BY <3>1
      <3>3. QED
        BY <1>6, <1>7, <3>2
    <2>2. CASE ~options.adf
      <3>1. j = 1 /\ 7 + j = 8
        BY <1>8, <2>2
      <3>2. QED
        BY <1>4, <2>1, <2>2, <3>1, WantedValues DEF Place, Caps
    <2>3. CASE options.adf /\ j = 1
      BY <1>4, <2>1, <2>3, WantedValues DEF Place, Caps
    <2>4. CASE options.adf /\ j = 2
      BY <1>4, <2>1, <2>4, WantedValues DEF Place, Caps
    <2>5. CASE options.adf /\ j = 3
      BY <1>4, <2>1, <2>5, WantedValues DEF Place, Caps
    <2>6. QED
      BY <1>8, <2>2, <2>3, <2>4, <2>5
  <1>12. ASSUME NEW j \in 1..Len(duplex) PROVE Right(Len(front) + j)
    <2>1. options.duplex /\ j = 1 /\ SettingsSent[Len(front) + j] = duplex[1]
      BY <1>7, <1>8
    <2>2. Len(front) + j = IF options.adf THEN 11 ELSE 9
      BY <1>6, <1>8, <2>1
    <2>3. QED
      BY <1>5, <2>1, <2>2, WantedValues DEF Place, Caps
  <1>13. ASSUME NEW i \in 1..Len(SettingsSent) PROVE Right(i)
    <2>1. PICK f \in Nat : f = Len(feeder)
      BY <1>8
    <2>2. PICK d \in Nat : d = Len(duplex)
      BY <1>8
    <2>3. Len(front) = 7 + f /\ Len(SettingsSent) = (7 + f) + d
      BY <1>6, <1>7, <2>1, <2>2
    <2>4. i \in 1..((7 + f) + d)
      BY <2>3
    <2>5. CASE i \in 1..7
      BY <1>10, <2>5
    <2>6. CASE i > 7 /\ i <= 7 + f
      <3>1. PICK j \in 1..f : i = 7 + j
        <4>1. i - 7 \in 1..f /\ i = 7 + (i - 7)
          BY <2>4, <2>6
        <4>2. QED
          BY <4>1
      <3>2. QED
        BY <1>11, <2>1, <3>1
    <2>7. CASE i > 7 + f
      <3>1. PICK j \in 1..d : i = 7 + f + j
        <4>1. i - (7 + f) \in 1..d /\ i = 7 + f + (i - (7 + f))
          BY <2>4, <2>7
        <4>2. QED
          BY <4>1
      <3>2. QED
        BY <1>12, <2>2, <2>3, <3>1
    <2>8. QED
      BY <2>4, <2>5, <2>6, <2>7
  <1>14. ASSUME NEW c \in Caps PROVE Place(c) \in 0..Len(SettingsSent)
    <2>1. Len(SettingsSent) = (IF options.adf THEN 10 ELSE 8) + (IF options.duplex THEN 1 ELSE 0)
      BY <1>6, <1>7, <1>8
    <2>2. Len(SettingsSent) \in Nat /\ 8 <= Len(SettingsSent)
      BY <2>1
    <2>3. CASE c \in {"FEEDERENABLED", "AUTOFEED", "XFERCOUNT"}
      <3>1. \/ options.adf /\ 10 <= Len(SettingsSent) /\ Place(c) \in {8, 9, 10}
            \/ ~options.adf /\ Place(c) \in {0, 8}
        BY <2>1, <2>3 DEF Place
      <3>2. QED
        <4>1. PICK n \in Nat, k \in Nat : n = Len(SettingsSent) /\ k = Place(c)
          BY <2>2, <3>1
        <4>2. k \in 0..n
          BY <2>2, <3>1, <4>1
        <4>3. QED
          BY <4>1, <4>2
    <2>4. CASE c = "DUPLEXENABLED"
      <3>1. \/ ~options.duplex /\ Place(c) = 0
            \/ options.duplex /\ options.adf /\ Len(SettingsSent) = 11 /\ Place(c) = 11
            \/ options.duplex /\ ~options.adf /\ Len(SettingsSent) = 9 /\ Place(c) = 9
        BY <2>1, <2>4 DEF Place
      <3>2. PICK n \in Nat, k \in Nat : n = Len(SettingsSent) /\ k = Place(c)
        BY <2>2, <3>1
      <3>3. k \in 0..n
        BY <2>2, <3>1, <3>2
      <3>4. QED
        BY <3>2, <3>3
    <2>5. CASE c \notin {"FEEDERENABLED", "AUTOFEED", "XFERCOUNT", "DUPLEXENABLED"}
      <3>1. Place(c) \in 1..7
        BY <2>5 DEF Place, Caps
      <3>2. QED
        BY <2>2, <3>1
    <2>6. QED
      BY <2>3, <2>4, <2>5
  <1>15. QED
    BY <1>7, <1>13, <1>14

(* When each setting is sent decides what the driver may undo: what a       *)
(* setting lets it reconsider comes later.                                 *)
LEMMA Ordered ==
  ASSUME NEW c \in Caps, NEW d \in Dependent(c), Requested
  PROVE  d \in Caps /\ Place(c) # 0 /\ Place(c) < Place(d)
  <1>1. CASE c = "PIXELTYPE"
    BY <1>1 DEF Dependent, Place, Caps
  <1>2. CASE c = "XFERMECH"
    BY <1>2 DEF Dependent, Place, Caps
  <1>3. QED
    BY <1>1, <1>2 DEF Dependent

(* No two settings are sent at the same place.  *)
LEMMA Distinct ==
  ASSUME NEW c \in Caps, NEW d \in Caps, Place(c) # 0, Place(c) = Place(d)
  PROVE  c = d
  <1>1. CASE options.adf
    BY <1>1 DEF Place, Caps
  <1>2. CASE ~options.adf
    BY <1>2 DEF Place, Caps
  <1>3. QED
    BY <1>1, <1>2

(* No setting is undone by a later one, none is refused but by the driver, *)
(* and none means something else to it, on either backend.                 *)
THEOREM SettingsHold == CapSpec => []SettingsInForce
  <1>1. CapInit => CapTypes /\ SoFar
    <2> SUFFICES ASSUME CapInit PROVE CapTypes /\ SoFar
      OBVIOUS
    <2>1. /\ options.resolution \in Nat /\ options.color \in ColorModes
          /\ options.adf \in BOOLEAN /\ options.duplex \in BOOLEAN
      BY CapabilityAssumption DEF CapInit
    <2>2. CapTypes
      <3>1. Len(SettingsSent) \in Nat
        <4>1. SettingsSent \in Seq(Sent)
          BY <2>1, Listed DEF Requested
        <4>2. QED
          BY <4>1
      <3>2. QED
        BY <2>1, <3>1 DEF CapInit, CapTypes, Requested
    <2>3. \A c \in Caps : ~(Place(c) # 0 /\ Place(c) <= told)
      <3>1. \A c \in Caps : Place(c) \in Nat
        BY <2>1, Listed DEF Requested
      <3>2. told = 0
        BY DEF CapInit
      <3>3. QED
        BY <3>1, <3>2
    <2>4. QED
      BY <2>2, <2>3 DEF CapInit, SoFar
  <1>2. CapTypes /\ SoFar /\ [CapNext]_capVars => (CapTypes /\ SoFar)'
    <2> SUFFICES ASSUME CapTypes, SoFar, [CapNext]_capVars PROVE (CapTypes /\ SoFar)'
      OBVIOUS
    <2>1. CASE SetCapability
      <3>1. /\ UNCHANGED <<options, backend, unwilling, SettingsSent, Wanted>>
            /\ \A c : Place(c)' = Place(c)
        BY <2>1 DEF SetCapability, SettingsSent, Wanted, Place
      <3>2. told + 1 \in 1..Len(SettingsSent) /\ told' = told + 1 /\ told \in Nat
        BY <2>1 DEF SetCapability, CapTypes
      <3>3. PICK c \in Caps : /\ SettingsSent[told + 1][1] = c /\ Place(c) = told + 1
                              /\ SettingsSent[told + 1][2] \in Wanted[c]
        <4>1. /\ SettingsSent[told + 1][1] \in Caps /\ Place(SettingsSent[told + 1][1]) = told + 1
              /\ SettingsSent[told + 1][2] \in Wanted[SettingsSent[told + 1][1]]
          BY <3>2, Listed DEF CapTypes
        <4>2. QED
          BY <4>1
      <3> DEFINE item == SettingsSent[told + 1][2]
      <3> HIDE DEF item
      <3>4. inForce' = IF Takes(c)
                       THEN [d \in Caps |-> IF d = c THEN item
                                            ELSE IF d \in Dependent(c) THEN Default ELSE inForce[d]]
                       ELSE inForce
        BY <2>1, <3>3 DEF SetCapability, item
      <3>5. CapTypes'
        <4>1. Requested' /\ told' \in 0..Len(SettingsSent)
          BY <3>1, <3>2 DEF CapTypes, Requested
        <4>2. DOMAIN inForce' = Caps
          BY <3>4 DEF CapTypes
        <4>3. QED
          BY <3>1, <4>1, <4>2 DEF CapTypes
      <3>6. ASSUME NEW d \in Caps
            PROVE  IF Place(d) # 0 /\ Place(d) <= told + 1
                     THEN \/ inForce'[d] \in Wanted[d]
                          \/ d \in unwilling
                          \/ d = "AUTOFEED" /\ "FEEDERENABLED" \in unwilling
                     ELSE inForce'[d] = Default
        <4>1. Place(d) \in Nat /\ Place(c) \in Nat
          BY Listed DEF CapTypes
        <4>2. CASE d = c /\ Takes(c)
          BY <3>2, <3>3, <3>4, <4>2 DEF item
        <4>3. CASE d = c /\ ~Takes(c)
          <5>1. c \in unwilling \/ (c = "AUTOFEED" /\ inForce["FEEDERENABLED"] # Flag(TRUE))
            BY <4>3 DEF Takes
          <5>2. ASSUME c = "AUTOFEED" PROVE inForce["FEEDERENABLED"] = Flag(TRUE) \/ "FEEDERENABLED" \in unwilling
            <6>1. options.adf
              BY <3>2, <3>3, <5>2 DEF Place
            <6>2. Place("FEEDERENABLED") = 8 /\ told + 1 = 9 /\ "FEEDERENABLED" \in Caps
              BY <3>3, <5>2, <6>1 DEF Place, Caps
            <6>3. inForce["FEEDERENABLED"] \in Wanted["FEEDERENABLED"] \/ "FEEDERENABLED" \in unwilling
              BY <3>2, <6>2 DEF SoFar
            <6>4. QED
              <7>1. Wanted["FEEDERENABLED"] = {U16(1)}
                BY <6>1, WantedValues DEF CapTypes
              <7>2. QED
                BY <6>3, <7>1 DEF Flag
          <5>3. Place(d) # 0 /\ Place(d) <= told + 1
            BY <3>2, <3>3, <4>3
          <5>4. QED
            BY <4>3, <5>1, <5>2, <5>3
        <4>4. CASE d # c
          <5>1. Place(d) # told + 1
            BY <3>2, <3>3, <4>4, Distinct
          <5>2. Place(d) <= told + 1 <=> Place(d) <= told
            BY <3>2, <4>1, <5>1
          <5>3. CASE d \in Dependent(c)
            <6>1. Place(c) < Place(d)
              BY <5>3, Ordered DEF CapTypes
            <6>2. inForce[d] = Default /\ ~(Place(d) <= told)
              BY <3>2, <3>3, <4>1, <6>1 DEF SoFar
            <6>3. inForce'[d] = Default
              BY <3>4, <4>4, <5>3, <6>2
            <6>4. QED
              BY <5>2, <6>2, <6>3
          <5>4. CASE d \notin Dependent(c)
            <6>1. inForce'[d] = inForce[d]
              BY <3>4, <4>4, <5>4
            <6>2. QED
              BY <5>2, <6>1 DEF SoFar
          <5>5. QED
            BY <5>3, <5>4
        <4>5. QED
          BY <4>2, <4>3, <4>4
      <3>7. SoFar'
        BY <3>1, <3>2, <3>6 DEF SoFar
      <3>8. QED
        BY <3>5, <3>7
    <2>2. CASE UNCHANGED capVars
      <3>1. /\ UNCHANGED <<options, backend, unwilling, told, inForce, SettingsSent, Wanted>>
            /\ \A c : Place(c)' = Place(c)
        BY <2>2 DEF capVars, SettingsSent, Wanted, Place
      <3>2. QED
        <4>1. CapTypes'
          BY <3>1 DEF CapTypes, Requested
        <4>2. SoFar'
          BY <3>1 DEF SoFar
        <4>3. QED
          BY <4>1, <4>2
    <2>3. QED
      BY <2>1, <2>2 DEF CapNext
  <1>3. CapTypes /\ SoFar => SettingsInForce
    <2> SUFFICES ASSUME CapTypes, SoFar, told = Len(SettingsSent), NEW c \in Caps
                 PROVE  \/ inForce[c] \in Wanted[c]
                        \/ c \in unwilling
                        \/ c = "AUTOFEED" /\ "FEEDERENABLED" \in unwilling
      BY DEF SettingsInForce
    <2>1. CASE Place(c) # 0
      <3>1. Place(c) <= told
        BY Listed DEF CapTypes
      <3>2. QED
        BY <2>1, <3>1 DEF SoFar
    <2>2. CASE Place(c) = 0
      <3>1. inForce[c] = Default
        BY <2>2 DEF SoFar
      <3>2. \/ c \in {"FEEDERENABLED", "AUTOFEED"} /\ ~options.adf
            \/ c = "DUPLEXENABLED" /\ ~options.duplex
        <4>1. CASE c = "DUPLEXENABLED"
          BY <2>2, <4>1 DEF Place
        <4>2. CASE c # "DUPLEXENABLED"
          BY <2>2, <4>2 DEF Place, Caps
        <4>3. QED
          BY <4>1, <4>2
      <3>3. Wanted[c] = {Default}
        BY <3>2, WantedValues DEF CapTypes
      <3>4. QED
        BY <3>1, <3>3
    <2>3. QED
      BY <2>1, <2>2
  <1>4. QED
    BY <1>1, <1>2, <1>3, PTL DEF CapSpec
=============================================================================
