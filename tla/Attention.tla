------------------------------ MODULE Attention ------------------------------
(***************************************************************************)
(* MultiHeadAttention, in the terms of LayerKernels.  An input is           *)
(* <<N, len, E>>, a head has E / heads columns.  Where the causal mask is   *)
(* set the attention is zero, and so is every product it is a factor of.   *)
(***************************************************************************)
EXTENDS LayerKernels

HeadDim(L) == L.dim \div L.heads

AttentionBuild(L, l, s) ==
  IF Len(s) # 2 \/ L.dim % L.heads # 0 THEN Refused(l)
  ELSE IF l.built THEN Built(<<s[1], L.dim>>, l)
  ELSE Allocated(<<s[1], L.dim>>, l, <<L.dim>>)

\* The permutations of [N, len, h*dK] and [N*h, len, dK]: the element written
\* and the element it is copied from.
splitHeads(N, len, h, dK) ==
  {<<(t[1]*h + t[3]) * (len*dK) + t[2]*dK + t[4], t[1]*(len*h*dK) + t[2]*(h*dK) + t[3]*dK + t[4], <<>>>> :
     t \in (0..(N-1)) \X (0..(len-1)) \X (0..(h-1)) \X (0..(dK-1))}

mergeHeads(Nh, N, len, E) ==
  LET h == Nh \div N
      dK == E \div h
  IN  {<<t[1]*(len*E) + t[2]*E + t[3]*dK + t[4], (t[1]*h + t[3]) * (len*dK) + t[2]*dK + t[4], <<>>>> :
         t \in (0..(N-1)) \X (0..(len-1)) \X (0..(h-1)) \X (0..(dK-1))}

\* Mutation: a position sees the one behind it too.
AttendsNext(L, len, a) == L.causal => a % len <= ((a \div len) % len) + 1

\* Element a of the scores, <<N*h, len, len>>, is not masked.
Attends(L, len, a) == L.causal => a % len <= (a \div len) % len

Unmasked(L, len, R, k) == {r \in R : Attends(L, len, r[k])}

softmaxLastDim(L, Nh, len, call) ==
  Unmasked(L, len, Unmasked(L, len,
    {<<r * len + i, r * len + j, <<<<"row", call, r, i, j>>>>>> :
       r \in 0..(Nh * len - 1), i \in 0..(len - 1), j \in 0..(len - 1)}, 1), 2)

\* From the output to the merged heads, to the context, and on to the queries,
\* keys and values as they come out of the projections.
AttentionForward(L, l, call, s) ==
  LET N == s[1]  len == s[2]  E == L.dim  h == L.heads  dK == HeadDim(L)  Nh == N * h
      split   == splitHeads(N, len, h, dK)
      product == matmul(<<N * len, E>>, <<E, E>>)
      KT      == transpose(<<Nh, len, dK>>, 2, 3)
      scores  == Unmasked(L, len, matmul(<<Nh, len, dK>>, <<Nh, dK, len>>), 1)
      context == Unmasked(L, len, matmul(<<Nh, len, len>>, <<Nh, len, dK>>), 2)
      FromContext == Then(Linear("Wo", product), mergeHeads(Nh, N, len, E))
      FromScores  == Then(FromContext, Then(AlongSaved(<<"V", call>>, context), softmaxLastDim(L, Nh, len, call)))
      FromQ == Then(FromScores, Then({<<t[1], t[2], <<<<"K", call, KT[t[3]]>>>>>> : t \in scores}, split))
      FromK == Then(FromScores, Then({<<t[1], KT[t[3]], <<<<"Q", call, t[2]>>>>>> : t \in scores}, split))
      FromV == Then(FromContext, Then({<<t[1], t[3], <<<<"attn", call, t[2]>>>>>> : t \in context}, split))
      Through(R, W, b) ==
        [edges |-> Then(R, Linear(W, product)),
         uses  |-> Then(R, LinearUses(W, <<"x", call>>, product) \union Bias(b, N * len, E))]
      projections == {Through(FromQ, "Wq", "bq"), Through(FromK, "Wk", "bk"), Through(FromV, "Wv", "bv")}
  IN  IF Len(s) # 3 \/ ~l.built THEN Failed(l)
      ELSE Computed(Saves(l, call, s, {}), s,
                    UNION {p.edges : p \in projections},
                    LinearUses("Wo", <<"merged", call>>, product) \union Bias("bo", N * len, E)
                      \union UNION {p.uses : p \in projections})

\* The same way back: each product of a gradient with a transposed operand.
AttentionBackward(L, l) ==
  LET s == l.ctx.shape  call == l.ctx.call
      N == s[1]  len == s[2]  E == L.dim  h == L.heads  dK == HeadDim(L)  Nh == N * h
      WT == transpose(<<E, E>>, 1, 2)
      xT == transpose(<<N * len, E>>, 1, 2)
      AT == transpose(<<Nh, len, len>>, 2, 3)
      VT == transpose(<<Nh, len, dK>>, 2, 3)
      dY == matmul(<<N * len, E>>, <<E, E>>)
      dW == matmul(<<E, N * len>>, <<N * len, E>>)
      Inputs(W)        == {<<t[2], t[1], <<<<W, WT[t[3]]>>>>>> : t \in dY}
      Weights(W, from) == {<<t[3], <<W, t[1]>>, <<Append(from, xT[t[2]])>>>> : t \in dW}
      ToContext == Then(Inputs("Wo"), Flip(splitHeads(N, len, h, dK)))
      dAttn == {<<t[2], t[1], <<<<"V", call, VT[t[3]]>>>>>> :
                  t \in matmul(<<Nh, len, dK>>, <<Nh, dK, len>>)}
      dV    == {<<t[3], t[1], <<<<"attn", call, AT[t[2]]>>>>>> :
                  t \in {t \in matmul(<<Nh, len, len>>, <<Nh, len, dK>>) : Attends(L, len, AT[t[2]])}}
      dQ    == {<<t[2], t[1], <<<<"K", call, t[3]>>>>>> :
                  t \in matmul(<<Nh, len, len>>, <<Nh, len, dK>>)}
      dK_   == {<<AT[t[2]], t[1], <<<<"Q", call, t[3]>>>>>> :
                  t \in matmul(<<Nh, len, len>>, <<Nh, len, dK>>)}
      ToScores == Then(ToContext, Then(dAttn, softmaxLastDim(L, Nh, len, call)))
      merge    == Flip(mergeHeads(Nh, N, len, E))
      backProj(R, W, b) ==
        [edges |-> Then(R, Inputs(W)),
         uses  |-> Then(R, Weights(W, <<"x", call>>) \union Bias(b, N * len, E))]
      projections == {backProj(Then(ToScores, Then(dQ, merge)), "Wq", "bq"),
                      backProj(Then(ToScores, Then(dK_, merge)), "Wk", "bk"),
                      backProj(Then(ToContext, Then(dV, merge)), "Wv", "bv")}
  IN  [edges |-> UNION {p.edges : p \in projections},
       uses  |-> Weights("Wo", <<"merged", call>>) \union Bias("bo", N * len, E)
                   \union UNION {p.uses : p \in projections}]

=============================================================================
