----------------------------- MODULE TableCodec -----------------------------
(***************************************************************************)
(* Field tables (amqp_table.c): the arguments and properties of methods.   *)
(* A table is a sequence of entries [key, value], an array a sequence of   *)
(* values, a value a record of its kind and its content.  Both are         *)
(* encoded as a size of 32 bits, filled in last, and the entries.          *)
(*                                                                         *)
(* Allocations succeed: that an allocation fails is modelled in            *)
(* ChannelPools and FrameParser.                                           *)
(***************************************************************************)
EXTENDS Wire

\* amqp_field_value_kind_t: the letter that announces each kind of value
KindByte == [BOOLEAN |-> 116, I8 |-> 98, U8 |-> 66, I16 |-> 115, U16 |-> 117,
             I32 |-> 73, U32 |-> 105, I64 |-> 108, U64 |-> 76, F32 |-> 102,
             F64 |-> 100, DECIMAL |-> 68, UTF8 |-> 83, ARRAY |-> 65,
             TIMESTAMP |-> 84, TABLE |-> 70, VOID |-> 86, BYTES |-> 120]

Letters == {KindByte[k] : k \in DOMAIN KindByte}

IsKind(k) == k \in DOMAIN KindByte

KindOf(byte) == CHOOSE k \in DOMAIN KindByte : KindByte[k] = byte

\* a kind the library does not know is written as it is, here as 0
LetterOf(k) == IF IsKind(k) THEN KindByte[k] ELSE 0

\* the kinds that are one integer, and its bytes; a float is its bit pattern
UnsignedWidth == [U8 |-> 1, U16 |-> 2, U32 |-> 4, U64 |-> 8,
                  F32 |-> 4, F64 |-> 8, TIMESTAMP |-> 8]

SignedWidth == [I8 |-> 1, I16 |-> 2, I32 |-> 4, I64 |-> 8]

ScalarWidth == UnsignedWidth @@ SignedWidth @@ [BOOLEAN |-> 1]

-----------------------------------------------------------------------------
RECURSIVE EncodeValue(_, _)

\* the size of what was written since the writer stood at `start'
FillSize(w, start) ==
    CASE w.status # OK -> w
      [] start + 4 > w.len -> [w EXCEPT !.status = TABLE_TOO_BIG]
      [] OTHER -> [w EXCEPT !.out = SubSeq(@, 1, start)
                                    \o Digits[4, Len(@) - start - 4]
                                    \o SubSeq(@, start + 5, Len(@))]

\* *offset += 4, whether there is room for the size or not
SkipSize(w) == [w EXCEPT !.out = @ \o Digits[4, 0]]

amqp_encode_array(w, array) ==
    IF w.status # OK THEN w
    ELSE FillSize(FoldLeft(EncodeValue, SkipSize(w), array), Len(w.out))

amqp_encode_table(w, table) ==
    LET EncodeEntry(x, e) ==
            EncodeValue(PutBytes(PutInt(x, 1, Len(e.key), TABLE_TOO_BIG),
                                 e.key, TABLE_TOO_BIG),
                        e.value)
    IN  IF w.status # OK THEN w
        ELSE FillSize(FoldLeft(EncodeEntry, SkipSize(w), table), Len(w.out))

\* the content of a value, after its kind
EncodeContent(w, v) ==
    CASE v.kind \in DOMAIN ScalarWidth ->
             PutInt(w, ScalarWidth[v.kind], v.value, TABLE_TOO_BIG)
      [] v.kind = "DECIMAL" ->
             PutInt(PutInt(w, 1, v.value.decimals, TABLE_TOO_BIG),
                    4, v.value.value, TABLE_TOO_BIG)
      [] v.kind \in {"UTF8", "BYTES"} ->
             PutBytes(PutInt(w, 4, Len(v.value), TABLE_TOO_BIG), v.value, TABLE_TOO_BIG)
      [] v.kind = "ARRAY" -> amqp_encode_array(w, v.value)
      [] v.kind = "TABLE" -> amqp_encode_table(w, v.value)
      [] v.kind = "VOID"  -> w
      [] OTHER -> [w EXCEPT !.status = INVALID_PARAMETER]

\* amqp_encode_field_value
EncodeValue(w, v) ==
    Then(PutInt(w, 1, LetterOf(v.kind), BAD_AMQP_DATA), LAMBDA k : EncodeContent(k, v))

-----------------------------------------------------------------------------
RECURSIVE DecodeValue(_, _), DecodeElements(_, _, _, _), DecodeEntries(_, _, _, _)

(***************************************************************************)
(* The size of an array or table must lie within the whole encoding; the   *)
(* entries are decoded until it is used up.  The last may reach beyond the *)
(* announced size: only the end of the encoding stops it.                  *)
(***************************************************************************)
Announced(encoded, r) ==
    Then(GetInt(encoded, r, 4),
         LAMBDA g : IF g.val + g.at > Len(encoded)
                    THEN [g EXCEPT !.status = BAD_AMQP_DATA] ELSE g)

DecodeElements(encoded, r, limit, found) ==
    LET Found(g) == DecodeElements(encoded, g, limit, Append(found, g.val))
    IN  IF r.status # OK THEN r
        ELSE IF r.at >= limit THEN [r EXCEPT !.val = found]
        ELSE Found(DecodeValue(encoded, r))

amqp_decode_array(encoded, r) ==
    Then(Announced(encoded, r),
         LAMBDA g : DecodeElements(encoded, g, g.at + g.val, <<>>))

DecodeEntries(encoded, r, limit, found) ==
    LET Found(k, g) == DecodeEntries(encoded, g, limit,
                                     Append(found, [key |-> k.val, value |-> g.val]))
        Keyed(k) == Found(k, DecodeValue(encoded, k))
    IN  IF r.status # OK THEN r
        ELSE IF r.at >= limit THEN [r EXCEPT !.val = found]
        ELSE Keyed(GetString(encoded, r, 1))

amqp_decode_table(encoded, r) ==
    Then(Announced(encoded, r),
         LAMBDA g : DecodeEntries(encoded, g, g.at + g.val, <<>>))

\* what the content of a value of this kind is, after the byte of the kind
DecodeContent(encoded, r, kind) ==
    CASE kind = "BOOLEAN" ->
             Then(GetInt(encoded, r, 1),
                  LAMBDA g : [g EXCEPT !.val = IF @ = 0 THEN 0 ELSE 1])
      [] kind \in DOMAIN UnsignedWidth -> GetInt(encoded, r, UnsignedWidth[kind])
      [] kind \in DOMAIN SignedWidth ->
             Then(GetBytes(encoded, r, SignedWidth[kind]),
                  LAMBDA g : [g EXCEPT !.val = Signed(@)])
      [] kind = "DECIMAL" ->
             LET Scaled(d) == Then(GetInt(encoded, d, 4), LAMBDA g :
                                   [g EXCEPT !.val = [decimals |-> d.val, value |-> @]])
             IN  Then(GetInt(encoded, r, 1), Scaled)
      [] kind \in {"UTF8", "BYTES"} -> GetString(encoded, r, 4)
      [] kind = "ARRAY" -> amqp_decode_array(encoded, r)
      [] kind = "TABLE" -> amqp_decode_table(encoded, r)
      [] kind = "VOID"  -> [r EXCEPT !.val = 0]

\* amqp_decode_field_value
DecodeValue(encoded, r) ==
    LET OfKind(k, kind) == [DecodeContent(encoded, k, kind) EXCEPT
                                !.val = [kind |-> kind, value |-> @]]
    IN  Then(GetInt(encoded, r, 1),
             LAMBDA k : IF k.val \in Letters THEN OfKind(k, KindOf(k.val))
                        ELSE [k EXCEPT !.status = BAD_AMQP_DATA])

-----------------------------------------------------------------------------
(***************************************************************************)
(* Copies into a pool of the connection's: equal to the original, unless   *)
(* the original holds an empty key (which amqp_decode_table accepts) or a  *)
(* value of unknown kind.                                                  *)
(***************************************************************************)
RECURSIVE CloneValue(_), amqp_table_clone(_)

\* amqp_field_value_clone
CloneValue(v) ==
    CASE v.kind = "ARRAY" ->
             LET copies == [i \in DOMAIN v.value |-> CloneValue(v.value[i])]
                 failed == {i \in DOMAIN copies : copies[i].status # OK}
             IN  [status |-> IF failed = {} THEN OK ELSE copies[Min(failed)].status,
                  value  |-> [v EXCEPT !.value = [i \in DOMAIN copies |-> copies[i].value]]]
      [] v.kind = "TABLE" ->
             LET copy == amqp_table_clone(v.value)
             IN  [status |-> copy.status, value |-> [v EXCEPT !.value = copy.table]]
      [] OTHER -> [status |-> IF IsKind(v.kind) THEN OK ELSE INVALID_PARAMETER, value |-> v]

\* amqp_table_entry_clone
CloneEntry(e) ==
    LET copy == CloneValue(e.value)
    IN  [status |-> IF e.key = <<>> THEN INVALID_PARAMETER ELSE copy.status,
         entry  |-> [e EXCEPT !.value = copy.value]]

amqp_table_clone(table) ==
    LET copies == [i \in DOMAIN table |-> CloneEntry(table[i])]
        failed == {i \in DOMAIN copies : copies[i].status # OK}
    IN  [status |-> IF failed = {} THEN OK ELSE copies[Min(failed)].status,
         table  |-> [i \in DOMAIN copies |-> copies[i].entry]]

-----------------------------------------------------------------------------
\* the position of the first entry with this key, 0 if there is none
amqp_table_get_entry_by_key(table, key) ==
    LET at == {i \in DOMAIN table : table[i].key = key}
    IN  IF at = {} THEN 0 ELSE Min(at)

RECURSIVE amqp_merge_capabilities(_, _)

\* a table with the same key is replaced as a whole
MergeEntryShallow(base, merged, e) ==
    LET at == amqp_table_get_entry_by_key(merged.table, e.key)
    IN  CASE merged.status # OK -> merged
          [] at = 0 -> [merged EXCEPT !.table = Append(@, e)]
          [] OTHER -> [merged EXCEPT !.table[at].value = e.value]

(***************************************************************************)
(* One entry of `add' put into what was merged so far.  Of two tables with *)
(* the same key the one merged into is looked up in `base' again.          *)
(***************************************************************************)
MergeEntry(base, merged, e) ==
    LET at == amqp_table_get_entry_by_key(merged.table, e.key)
        be == amqp_table_get_entry_by_key(base, e.key)
    IN  CASE merged.status # OK -> merged
          [] at = 0 -> [merged EXCEPT !.table = Append(@, e)]
          [] at # 0 /\ e.value.kind = "TABLE" /\ merged.table[at].value.kind = "TABLE" ->
                 LET inner == amqp_merge_capabilities(base[be].value.value, e.value.value)
                 IN  [status |-> inner.status,
                      table  |-> [merged.table EXCEPT ![at].value.value = inner.table]]
          [] OTHER -> [merged EXCEPT !.table[at].value = e.value]

amqp_merge_capabilities(base, add) ==
    LET MergeInto(merged, e) == MergeEntry(base, merged, e)
        merged == FoldLeft(MergeInto, [status |-> OK, table |-> base], add)
    IN  IF merged.status = OK THEN amqp_table_clone(merged.table) ELSE merged
=============================================================================
