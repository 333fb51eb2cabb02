------------------------------- MODULE MovFile -------------------------------
(***************************************************************************)
(* A movie file byte by byte: the boxes around the samples as the library  *)
(* writes them (fmp4_write_moov with all that is in it, and the tables of  *)
(* plain files), in layouts that other programs choose as well, and the    *)
(* walk of mov_reader_box over them.                                       *)
(*                                                                         *)
(* Positions count from 1.  A value nobody looks at is written as 0.       *)
(* Every writer returns the bytes and, apart, the size it reports for the  *)
(* box around it to add up: nothing but the code's sums makes them agree.  *)
(* The boxes of fragments are in Fmp4Writer; leva, cslg, stz2 and a second *)
(* table of a kind, which fails an assert, are in no file here.            *)
(***************************************************************************)
EXTENDS Integers, SequencesExt, FiniteSetsExt

CONSTANTS
  timescale,    \* of the tracks, ticks in MS units of the caller's time
  MS            \* 1000 in the code, also the timescale of the movie

Add(a, b) == a + b
Total(s) == FoldLeft(Add, 0, s)
Repeat(n, x) == [k \in 1..n |-> x]
------------------------------------------------------------------------------
(* Numbers and names.                                                       *)

\* uint64_t, which sizes and positions are: no file comes near its limit, but a box
\* that lasts to the end of the file has the greatest size there is.
Words == 2^30
UINT64_MAX == Words - 1
Wrap(n) == n % Words

w16(v) == <<(v \div 256) % 256, v % 256>>
w32(v) == w16(v \div 65536) \o w16(v)
w64(v) == Repeat(4, IF v < 0 THEN 255 ELSE 0) \o w32(v)

\* Behind the end of the file zeros are read.  The uppermost bit counts as the sign.
r8(f, p) == IF p \in DOMAIN f THEN f[p] ELSE 0
r32(f, p) == LET high == r8(f, p)
             IN (IF high < 128 THEN high ELSE high - 256) * 2^24
                + r8(f, p + 1) * 65536 + r8(f, p + 2) * 256 + r8(f, p + 3)

\* mov_buffer_r64 shifts the upper word by 16 bits instead of 32: only numbers of one
\* word come out right.
Mangled == 65536
r64(f, p) == IF r32(f, p) = 0 THEN r32(f, p + 4) ELSE Mangled

\* MOV_TAG; a name is its place in this list.
Names == <<"ftyp", "moov", "mvhd", "trak", "tkhd", "edts", "elst", "mdia", "mdhd", "hdlr",
           "minf", "vmhd", "smhd", "dinf", "dref", "url ", "stbl", "stsd", "stts", "ctts",
           "stss", "stsc", "stsz", "stco", "co64", "mvex", "trex", "mdat", "free",
           "skip", "uuid", "avcC", "hvcC", "esds", "btrt", "avc1", "hev1", "mp4v", "mp4a",
           "alaw", "ulaw", "vide", "soun", "udta", "hint", "meta", "clcp">>
Codes == [name \in Range(Names) |-> CHOOSE i \in DOMAIN Names : Names[i] = name]
Tag(name) == IF name = "none" THEN w32(0) ELSE w32(Codes[name])
Name(f, p) == LET code == r32(f, p) IN IF code \in DOMAIN Names THEN Names[code] ELSE "none"

\* mov_object_to_tag, mov_tag_to_object; an object without a tag becomes 0.
Tags == << <<33, "avc1">>, <<35, "hev1">>, <<32, "mp4v">>, <<64, "mp4a">>,
           <<253, "alaw">>, <<254, "ulaw">> >>
TagOf(object) ==
  FoldLeft(LAMBDA tag, e : IF e[1] = object THEN e[2] ELSE tag, "none", Tags)
ObjectOf(tag) ==
  FoldLeft(LAMBDA object, e : IF e[2] = tag THEN e[1] ELSE object, 0, Tags)
------------------------------------------------------------------------------
(* Writing.                                                                 *)

Box(type, size, body) == [size |-> size, bytes |-> w32(size) \o Tag(type) \o body]

\* A box that a program that is not this library has put into the container `at'.
Odd(layout) ==
  LET odd == layout.odd
  IN IF odd.large
     THEN [size |-> 16 + odd.len,
           bytes |-> w32(1) \o Tag(odd.type) \o w64(16 + odd.len) \o Repeat(odd.len, 0)]
     ELSE Box(odd.type, 8 + odd.len, Repeat(odd.len, 0))

With(layout, container, boxes) ==
  IF layout.odd.at # container THEN boxes
  ELSE IF layout.odd.first THEN <<Odd(layout)>> \o boxes ELSE boxes \o <<Odd(layout)>>

Concat(boxes) == FlattenSeq([i \in 1..Len(boxes) |-> boxes[i].bytes])

\* mov_write_size: the size is that of the box's own fields and what its content reports.
Nest(layout, type, own, body, content) ==
  LET boxes == With(layout, type, content)
  IN Box(type, own + Total([i \in 1..Len(boxes) |-> boxes[i].size]), body \o Concat(boxes))

\* Entries behind version, flags and their count.
Table(type, width, entries) ==
  Box(type, 16 + width * Len(entries), w32(0) \o w32(Len(entries)) \o FlattenSeq(entries))

\* mov_write_base_descr: the length in four bytes of seven bits.
BaseDescr(tag, len) ==
  LET part(k) == (len \div 128^k) % 128
  IN <<tag, 128 + part(3), 128 + part(2), 128 + part(1), part(0)>>

\* Faulty variant: the header of a part that is not there is counted.
ConfigSize_Always(extra) == 13 + Len(extra) + 5

\* What the descriptor of the decoder's configuration holds.
ConfigSize(extra) == 13 + (IF extra = <<>> THEN 0 ELSE Len(extra) + 5)

\* mov_write_esds.
WriteEsds(t, id) ==
  LET size == 3 + 5 + ConfigSize(t.extra) + 5 + 1
      info == IF t.extra = <<>> THEN <<>> ELSE BaseDescr(5, Len(t.extra)) \o t.extra
      stream_type == IF t.handler_type = "video" THEN 4 ELSE 5
  IN Box("esds", 12 + size + 5,
         w32(0) \o BaseDescr(3, size) \o w16(id) \o <<0>>
         \o BaseDescr(4, ConfigSize(t.extra)) \o <<t.object, 1 + 4 * stream_type>>
         \o Repeat(11, 0) \o info \o BaseDescr(6, 1) \o <<2>>)

\* mov_write_stsd with its one entry.
WriteStsd(layout, t, id) ==
  LET tag == TagOf(t.object)
      own == IF t.handler_type = "video" THEN 86 ELSE 36
      boxes == CASE tag = "avc1" -> <<Box("avcC", Len(t.extra) + 8, t.extra)>>
                 [] tag = "hev1" -> <<Box("hvcC", Len(t.extra) + 8, t.extra)>>
                 [] tag \in {"mp4v", "mp4a"} -> <<WriteEsds(t, id)>>
                 [] OTHER -> <<>>
      entry == Nest(layout, tag, own, Repeat(6, 0) \o w16(1) \o Repeat(own - 16, 0), boxes)
  IN Box("stsd", 16 + entry.size, w32(0) \o w32(1) \o entry.bytes)

\* Neighbours that are equal become one entry (mov_build_stts, mov_build_ctts, which
\* are commented out).
Runs(s) ==
  FoldLeft(LAMBDA out, x :
             IF out # <<>> /\ Last(out).value = x
             THEN [out EXCEPT ![Len(out)].count = @ + 1]
             ELSE Append(out, [count |-> 1, value |-> x]),
           <<>>, s)

\* mov_write_stts, mov_write_ctts.
WriteRuns(type, runs) ==
  Table(type, 8, [i \in 1..Len(runs) |-> w32(runs[i].count) \o w32(runs[i].value)])

\* mov_write_stsz: one size if all are equal.
WriteStsz(bytes) ==
  LET n == Len(bytes)
  IN IF \A k \in 2..n : bytes[k] = bytes[k - 1]
     THEN Box("stsz", 20, w32(0) \o w32(IF n < 1 THEN 0 ELSE bytes[1]) \o w32(n))
     ELSE Box("stsz", 20 + 4 * n,
              w32(0) \o w32(0) \o w32(n) \o FlattenSeq([k \in 1..n |-> w32(bytes[k])]))

\* The chunks whose count of samples is not that of the chunk before.
Changes(c) ==
  FoldLeft(LAMBDA out, i : IF out # <<>> /\ c[Last(out)] = c[i] THEN out ELSE Append(out, i),
           <<>>, [i \in 1..Len(c) |-> i])

\* mov_write_stsc: an entry where the count of samples changes.
WriteStsc(c) ==
  Table("stsc", 12, [k \in 1..Len(Changes(c)) |->
                       w32(Changes(c)[k]) \o w32(c[Changes(c)[k]]) \o w32(1)])

\* mov_write_stco: where each chunk begins, in two words if one does not suffice (a
\* layout may do so in any case).
WriteStco(layout, places) ==
  IF layout.co64 THEN Table("co64", 8, [i \in 1..Len(places) |-> w64(places[i])])
  ELSE Table("stco", 4, [i \in 1..Len(places) |-> w32(places[i])])

\* Faulty variant: numbers from 0.
WriteStss_FromZero(keys) ==
  LET numbers == SetToSortSeq(keys, LAMBDA a, b : a < b)
  IN Table("stss", 4, [i \in 1..Len(numbers) |-> w32(numbers[i] - 1)])

\* mov_write_stss: numbers of the key frames, from 1.
WriteStss(keys) ==
  LET numbers == SetToSortSeq(keys, LAMBDA a, b : a < b)
  IN Table("stss", 4, [i \in 1..Len(numbers) |-> w32(numbers[i])])

\* fmp4_write_stbl: empty tables, as fmp4_write_moov says meanwhile that there are no
\* samples.  In a plain file, whose mov_write_stbl is commented out, all of them.
WriteStbl(layout, t, id, places) ==
  Nest(layout, "stbl", 8, <<>>,
       IF layout.init
       THEN <<WriteStsd(layout, t, id), WriteRuns("stts", <<>>), WriteStsc(<<>>),
              WriteStsz(<<>>), WriteStco(layout, <<>>)>>
       ELSE <<WriteStsd(layout, t, id), WriteRuns("stts", Runs(t.delta))>>
            \o (IF t.stss THEN <<WriteStss(t.keys)>> ELSE <<>>)
            \o (IF \A n \in DOMAIN t.shift : t.shift[n] = 0 THEN <<>>
                ELSE <<WriteRuns("ctts", Runs(t.shift))>>)
            \o <<WriteStsc(t.chunks), WriteStsz(t.bytes), WriteStco(layout, places)>>)

\* Headers in the version of the layout (the library writes 0): with 1 their times
\* take two words.
Times(layout) == <<layout.version, 0, 0, 0>> \o Repeat(8 + 8 * layout.version, 0)
Time(layout, v) == IF layout.version = 1 THEN w64(v) ELSE w32(v)

\* What stands in the headers of fragmented files is 0.
Duration(layout, t) == IF layout.init \/ layout.mvex # "none" THEN 0 ELSE Total(t.delta)

\* An empty edit (mov_write_elst is commented out: other programs').
WriteEdts(layout, delay) ==
  LET entry == Time(layout, delay) \o Time(layout, -1) \o w16(1) \o w16(0)
  IN Nest(layout, "edts", 8, <<>>,
          <<Box("elst", 16 + Len(entry), <<layout.version, 0, 0, 0>> \o w32(1) \o entry)>>)

\* mov_write_dinf, mov_write_dref.
WriteDinf(layout) ==
  Nest(layout, "dinf", 8, <<>>,
       <<Box("dref", 28, w32(0) \o w32(1) \o w32(12) \o Tag("url ") \o w32(1))>>)

\* mov_write_vmhd, mov_write_smhd.
WriteMhd(t) == IF t.handler_type = "video" THEN Box("vmhd", 20, Repeat(12, 0))
               ELSE Box("smhd", 16, Repeat(8, 0))

\* fmp4_write_minf.
WriteMinf(layout, t, id, places) ==
  Nest(layout, "minf", 8, <<>>,
       <<WriteMhd(t), WriteDinf(layout), WriteStbl(layout, t, id, places)>>)

\* mov_write_mdhd.
WriteMdhd(layout, t) ==
  Box("mdhd", 32 + 12 * layout.version,
      Times(layout) \o w32(timescale) \o Time(layout, Duration(layout, t)) \o w32(0))

\* mov_write_hdlr; the names of the handlers have twelve letters.
WriteHdlr(t) ==
  Box("hdlr", 33 + 12,
      Repeat(8, 0) \o Tag(IF t.handler_type = "video" THEN "vide" ELSE "soun") \o Repeat(25, 0))

\* fmp4_write_mdia.
WriteMdia(layout, t, id, places) ==
  Nest(layout, "mdia", 8, <<>>,
       <<WriteMdhd(layout, t), WriteHdlr(t), WriteMinf(layout, t, id, places)>>)

\* mov_write_tkhd, with a duration of 0.
WriteTkhd(layout, id) ==
  Box("tkhd", 92 + 12 * layout.version,
      Times(layout) \o w32(id) \o w32(0) \o Time(layout, 0) \o Repeat(60, 0))

\* fmp4_write_trak.
WriteTrak(layout, t, id, places) ==
  Nest(layout, "trak", 8, <<>>,
       <<WriteTkhd(layout, id)>>
       \o (IF layout.init \/ t.delay = 0 THEN <<>> ELSE <<WriteEdts(layout, t.delay)>>)
       \o <<WriteMdia(layout, t, id, places)>>)

\* mov_write_trex.
WriteTrex(id) == Box("trex", 32, w32(0) \o w32(id) \o w32(1) \o Repeat(12, 0))

\* fmp4_write_mvex.
WriteMvex(layout, n) == Nest(layout, "mvex", 8, <<>>, [id \in 1..n |-> WriteTrex(id)])

\* mov_write_mvhd, with a duration of 0.
WriteMvhd(layout, n) ==
  Box("mvhd", 108 + 12 * layout.version,
      Times(layout) \o w32(MS) \o Time(layout, 0) \o Repeat(76, 0) \o w32(n + 1))

\* fmp4_write_moov.  The tracks have the numbers next_track_ID had when they were
\* added; places[i] is where the chunks of track i begin.
WriteMoov(layout, ts, places) ==
  LET n == Len(ts)
      mvhd == WriteMvhd(layout, n)
      mvex == IF layout.mvex = "none" THEN <<>> ELSE <<WriteMvex(layout, n)>>
      traks == [i \in 1..n |-> WriteTrak(layout, ts[i], i, places[i])]
  IN Nest(layout, "moov", 8, <<>>,
          IF layout.mvex = "first" THEN <<mvhd>> \o mvex \o traks ELSE <<mvhd>> \o traks \o mvex)

\* A box as the last one of a file, which need not say how long it is.
ToTheEnd(box) == [box EXCEPT !.bytes = w32(0) \o SubSeq(@, 5, Len(@))]

\* mov_write_ftyp.
WriteFtyp(layout) == Box("ftyp", 16 + 4 * layout.brands, Repeat(8 + 4 * layout.brands, 1))

\* The boxes of a file: ftyp and moov (fmp4_writer_init_segment), and in a plain file mdat.
InOrder(layout, ftyp, moov, mdat) ==
  CASE layout.init                    -> <<ftyp, moov>>
    [] layout.order = "moov_last"     -> <<ftyp, mdat, moov>>
    [] layout.order = "moov_to_end"   -> <<ftyp, mdat, ToTheEnd(moov)>>
    [] layout.order = "mdat_last"     -> <<ftyp, moov, mdat>>
    [] layout.order = "mdat_to_end"   -> <<ftyp, moov, ToTheEnd(mdat)>>

\* A few bytes stand for the content of mdat.  The reader skips one byte too few of an
\* mdat without a size and goes on in the middle of it; here it finds a box it does not
\* know.
WriteFile(layout, ts, places) ==
  Concat(With(layout, "root",
             InOrder(layout, WriteFtyp(layout), WriteMoov(layout, ts, places),
                     Box("mdat", 8 + 12, Repeat(12, 7)))))
------------------------------------------------------------------------------
(* Reading.  s is the state of mov_t: the position, the tracks, the fields  *)
(* of mvhd; has mov_reader_box returned an error, has an assert failed?     *)

Unread ==
  [at |-> 1, tracks |-> <<>>, timescale |-> 0, duration |-> 0, error |-> FALSE, abort |-> FALSE]

NoTables ==
  [stsz |-> <<>>, stsc |-> <<>>, stco |-> <<>>, stts |-> <<>>, ctts |-> <<>>, stss |-> <<>>]

NewTrack ==
  [track_ID |-> 0, tkhd_duration |-> 0, handler_type |-> "none", timescale |-> 0,
   mdhd_duration |-> 0, stsd |-> <<>>, extra |-> <<>>, trex |-> 0, elst |-> <<>>,
   stbl |-> NoTables]

Abort(s) == [s EXCEPT !.abort = TRUE]
ReadTime(f, p, version) == IF version = 1 THEN r64(f, p) ELSE r32(f, p)

\* mov_read_base_descr: up to four bytes of length.  If the fourth says that there is
\* a fifth, one byte more is reported than was read.
ReadBaseDescr(f, p) ==
  LET ends == {k \in 1..4 : r8(f, p + k) < 128}
      n == IF ends = {} THEN 4 ELSE Min(ends)
  IN [tag |-> r8(f, p), to |-> p + 1 + n, n |-> IF ends = {} THEN 6 ELSE n + 1,
      len |-> FoldLeft(LAMBDA len, k : len * 128 + (r8(f, p + k) % 128), 0, [k \in 1..n |-> k])]

\* mp4_read_es_descriptor: how many bytes the descriptor has of its own; three flags
\* tell of optional fields.
EsFields(f, p) ==
  LET flags == r8(f, p + 2)
      url == 3 + (IF flags >= 128 THEN 2 ELSE 0)
  IN url + (IF (flags \div 64) % 2 = 1 THEN 1 + r8(f, p + url) ELSE 0)
         + (IF (flags \div 32) % 2 = 1 THEN 2 ELSE 0)

RECURSIVE ReadTag(_, _, _, _)

\* mp4_read_decoder_config_descriptor.
ReadDecoderConfig(f, s, p, len) ==
  LET k == Len(s.tracks)
  IN ReadTag(f, [s EXCEPT !.at = p + 13, !.tracks[k].stsd[1].object = r8(f, p),
                          !.tracks[k].stsd[1].stream_type = r8(f, p + 1) \div 4],
             Wrap(len - 13), 0)

\* mov_read_avcc, mov_read_hvcc, mp4_read_decoder_specific_info.
ReadExtra(f, s, p, len) ==
  [s EXCEPT !.at = p + len, !.tracks[Len(s.tracks)].extra = SubSeq(f, p, p + len - 1)]

\* mp4_read_tag, offset bytes of which are done.
ReadTag(f, s, bytes, offset) ==
  LET d == ReadBaseDescr(f, s.at)
      own == EsFields(f, d.to)
      content == CASE d.tag = 3 -> ReadTag(f, [s EXCEPT !.at = d.to + own], Wrap(d.len - own), 0)
                   [] d.tag = 4 -> ReadDecoderConfig(f, s, d.to, d.len)
                   [] d.tag = 5 -> ReadExtra(f, s, d.to, d.len)
                   [] OTHER     -> s
      done == offset + d.n + d.len
  IN IF offset + 5 >= bytes THEN s
     ELSE IF done > bytes THEN [s EXCEPT !.at = d.to]
     ELSE ReadTag(f, [content EXCEPT !.at = d.to + d.len], bytes, done)

\* s_mov_parse_table without the boxes of fragments: the container each has to be in.
ParseTable ==
  [ftyp |-> "root", moov |-> "root", mdat |-> "root", mvhd |-> "moov", trak |-> "moov",
   mvex |-> "moov", trex |-> "mvex", tkhd |-> "trak", edts |-> "trak", mdia |-> "trak",
   elst |-> "edts", mdhd |-> "mdia", hdlr |-> "mdia", minf |-> "mdia", vmhd |-> "minf",
   smhd |-> "minf", dinf |-> "minf", stbl |-> "minf", dref |-> "dinf", stsd |-> "stbl",
   stts |-> "stbl", ctts |-> "stbl", stss |-> "stbl", stsc |-> "stbl", stsz |-> "stbl",
   stco |-> "stbl", co64 |-> "stbl", avcC |-> "any", hvcC |-> "any", esds |-> "any",
   btrt |-> "any", free |-> "any", skip |-> "any", uuid |-> "any"]

RECURSIVE Walk(_, _, _, _)

\* mov_read_video, mov_read_audio: an entry with the boxes in it, of which an error is
\* of no consequence (mp4_read_extra); what they leave of the entry is skipped.
ReadEntry(f, s) ==
  LET k == Len(s.tracks)
      own == IF s.tracks[k].handler_type = "vide" THEN 86 ELSE 36
      tag == Name(f, s.at + 4)
      entry == [tag |-> tag, object |-> ObjectOf(tag),
                stream_type |-> IF own = 86 THEN 4 ELSE 5]
      inside == Walk(f, [s EXCEPT !.at = @ + own, !.tracks[k].stsd = Append(@, entry)],
                     [type |-> tag, size |-> Wrap(r32(f, s.at) - own)], 0)
  IN [inside EXCEPT !.at = Wrap(s.at + r32(f, s.at)), !.error = FALSE]

\* mov_read_hint_sample_entry, mov_read_meta_sample_entry: nothing is taken from it.
SkipEntry(f, s) ==
  [s EXCEPT !.at = Wrap(@ + r32(f, s.at)),
            !.tracks[Len(s.tracks)].stsd =
               Append(@, [tag |-> "none", object |-> 0, stream_type |-> 0])]

\* mov_read_stsd.
ReadStsd(f, s) ==
  LET n == r32(f, s.at + 4)
      handler == s.tracks[Len(s.tracks)].handler_type
      entry(t) == IF handler \in {"vide", "soun"} THEN ReadEntry(f, t) ELSE SkipEntry(f, t)
  IN IF handler \notin {"vide", "soun", "hint", "meta", "clcp"} /\ n > 0 THEN Abort(s)
     ELSE FoldLeft(LAMBDA t, i : entry(t), [s EXCEPT !.at = @ + 8], Repeat(n, 0))

\* A table of stbl with n entries, which end at `to'.  Nobody writes more entries than
\* a file has bytes; that case is not followed up.
Loaded(f, s, table, n, to, entries) ==
  IF n \notin 0..Len(f) THEN Abort(s)
  ELSE [s EXCEPT !.at = to, !.tracks[Len(s.tracks)].stbl[table] = entries]

\* mov_read_stts, mov_read_ctts.
ReadRuns(f, s, table) ==
  LET p == s.at
      n == r32(f, p + 4)
  IN Loaded(f, s, table, n, p + 8 + 8 * n,
            [i \in 1..n |-> [count |-> r32(f, p + 8 * i), value |-> r32(f, p + 8 * i + 4)]])

\* mov_read_stsc.
ReadStsc(f, s) ==
  LET p == s.at
      n == r32(f, p + 4)
  IN Loaded(f, s, "stsc", n, p + 8 + 12 * n,
            [i \in 1..n |-> [first_chunk |-> r32(f, p + 12 * i - 4),
                             samples_per_chunk |-> r32(f, p + 12 * i)]])

\* mov_read_stsz: one size for all samples, if it is not 0.
ReadStsz(f, s) ==
  LET p == s.at
      same == r32(f, p + 4)
      n == r32(f, p + 8)
  IN Loaded(f, s, "stsz", n, p + 12 + (IF same = 0 THEN 4 * n ELSE 0),
            [i \in 1..n |-> IF same = 0 THEN r32(f, p + 8 + 4 * i) ELSE same])

\* mov_read_stco.
ReadStco(f, s, type) ==
  LET p == s.at
      n == r32(f, p + 4)
  IN IF type = "co64"
     THEN Loaded(f, s, "stco", n, p + 8 + 8 * n, [i \in 1..n |-> r64(f, p + 8 * i)])
     ELSE Loaded(f, s, "stco", n, p + 8 + 4 * n, [i \in 1..n |-> r32(f, p + 4 + 4 * i)])

\* mov_read_stss.
ReadStss(f, s) ==
  LET p == s.at
      n == r32(f, p + 4)
  IN Loaded(f, s, "stss", n, p + 8 + 4 * n, [i \in 1..n |-> r32(f, p + 4 + 4 * i)])

\* mov_read_mvhd: with version 1 two times and the duration take 4 bytes more each.
ReadMvhd(f, s) ==
  LET p == s.at
      v == r8(f, p)
  IN IF v > 1 THEN Abort(s)
     ELSE [s EXCEPT !.at = p + 100 + 12 * v, !.timescale = r32(f, p + 12 + 8 * v),
                    !.duration = ReadTime(f, p + 16 + 8 * v, v)]

\* mov_read_tkhd.
ReadTkhd(f, s) ==
  LET p == s.at
      v == r8(f, p)
      k == Len(s.tracks)
  IN IF v > 1 THEN Abort(s)
     ELSE [s EXCEPT !.at = p + 84 + 12 * v, !.tracks[k].track_ID = r32(f, p + 12 + 8 * v),
                    !.tracks[k].tkhd_duration = ReadTime(f, p + 20 + 8 * v, v)]

\* mov_read_mdhd.
ReadMdhd(f, s) ==
  LET p == s.at
      v == r8(f, p)
      k == Len(s.tracks)
  IN IF v > 1 THEN Abort(s)
     ELSE [s EXCEPT !.at = p + 24 + 12 * v, !.tracks[k].timescale = r32(f, p + 12 + 8 * v),
                    !.tracks[k].mdhd_duration = ReadTime(f, p + 16 + 8 * v, v)]

\* mov_read_hdlr.
ReadHdlr(f, s, size) ==
  [s EXCEPT !.at = @ + size, !.tracks[Len(s.tracks)].handler_type = Name(f, s.at + 8)]

\* mov_read_elst.
ReadElst(f, s) ==
  LET p == s.at
      v == r8(f, p)
      n == r32(f, p + 4)
      entry(i) == p + 8 + (12 + 8 * v) * (i - 1)
  IN IF v > 1 THEN Abort(s)
     ELSE [s EXCEPT !.at = entry(n + 1),
                    !.tracks[Len(s.tracks)].elst =
                      [i \in 1..n |-> [segment_duration |-> ReadTime(f, entry(i), v),
                                       media_time |-> ReadTime(f, entry(i) + 4 + 4 * v, v)]]]

\* mov_read_trex; a track that is not there is an error.
ReadTrex(f, s) ==
  LET its == {k \in DOMAIN s.tracks : s.tracks[k].track_ID = r32(f, s.at + 4)}
  IN IF its = {} THEN [s EXCEPT !.error = TRUE]
     ELSE [s EXCEPT !.at = @ + 24, !.tracks[Min(its)].trex = r32(f, s.at + 8)]

\* mov_read_ftyp, with N_BRAND, which is 8.
ReadFtyp(s, size) ==
  IF size < 8 THEN [s EXCEPT !.error = TRUE]
  ELSE [s EXCEPT !.at = @ + 8 + 4 * Min({8, (size - 5) \div 4})]

\* mov_read_dref: entries of the size they say.
ReadDref(f, s) ==
  [s EXCEPT !.at = FoldLeft(LAMBDA p, i : p + r32(f, p), @ + 8, Repeat(r32(f, s.at + 4), 0))]

\* The content of a box, see s_mov_parse_table.
Parse(f, s, box) ==
  LET type == box.type
      by(bytes) == [s EXCEPT !.at = Wrap(@ + bytes)]
  IN CASE type \in {"moov", "mvex", "edts", "mdia", "minf", "dinf", "stbl"} -> Walk(f, s, box, 0)
       [] type = "trak" -> Walk(f, [s EXCEPT !.tracks = Append(@, NewTrack)], box, 0)
       [] type = "mvhd" -> ReadMvhd(f, s)
       [] type = "tkhd" -> ReadTkhd(f, s)
       [] type = "mdhd" -> ReadMdhd(f, s)
       [] type = "hdlr" -> ReadHdlr(f, s, box.size)
       [] type = "elst" -> ReadElst(f, s)
       [] type = "stsd" -> ReadStsd(f, s)
       [] type \in {"stts", "ctts"} -> ReadRuns(f, s, type)
       [] type = "stsc" -> ReadStsc(f, s)
       [] type = "stsz" -> ReadStsz(f, s)
       [] type = "stss" -> ReadStss(f, s)
       [] type \in {"stco", "co64"} -> ReadStco(f, s, type)
       [] type = "trex" -> ReadTrex(f, s)
       [] type \in {"avcC", "hvcC"} -> ReadExtra(f, s, s.at, box.size)
       [] type = "esds" -> ReadTag(f, by(4), Wrap(box.size - 4), 0)
       [] type = "ftyp" -> ReadFtyp(s, box.size)
       [] type = "dref" -> ReadDref(f, s)
       [] type \in {"vmhd", "btrt"} -> by(12)
       [] type = "smhd" -> by(8)
       [] type = "uuid" -> by(IF box.size > 16 THEN box.size ELSE 0)
       [] type \in {"free", "skip", "mdat"} -> by(box.size)

\* mov_reader_box: bytes of the parent are done.  A function of the table has to read
\* its box to the end.
Walk(f, s, parent, bytes) ==
  LET size == r32(f, s.at)
      type == Name(f, s.at + 4)
      head == IF size = 1 THEN 16 ELSE 8
      whole == CASE size = 0 -> UINT64_MAX
                 [] size = 1 -> r64(f, s.at + 8)
                 [] OTHER    -> Wrap(size)
      box == [type |-> type,
              size |-> IF whole = UINT64_MAX THEN whole ELSE Wrap(whole - head)]
      done == IF whole = UINT64_MAX THEN parent.size ELSE Wrap(bytes + whole)
      at == s.at + head
      read == Parse(f, [s EXCEPT !.at = at], box)
  IN IF \/ s.abort \/ Wrap(bytes + 8) >= parent.size
        \/ s.at + 7 > Len(f)                       \* read error
        \/ size = 0 /\ r32(f, s.at + 4) = 0        \* all done
     THEN s
     ELSE IF done > parent.size THEN [s EXCEPT !.error = TRUE]
     ELSE IF type \notin DOMAIN ParseTable
     THEN Walk(f, [s EXCEPT !.at = Wrap(at + box.size)], parent, done)
     ELSE IF \/ ParseTable[type] \notin {"any", parent.type}
             \/ read.abort \/ read.error \/ Wrap(read.at - at) # box.size
     THEN Abort(s)
     ELSE Walk(f, read, parent, done)

ReadFile(f) == Walk(f, Unread, [type |-> "root", size |-> UINT64_MAX], 0)
==============================================================================
