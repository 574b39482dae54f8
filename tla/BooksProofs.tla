---------------------------- MODULE BooksProofs ----------------------------
(***************************************************************************)
(* Proofs about Books, for every width of an Amount, any documents, years  *)
(* and handlers, and any number of vouchers; and, from "SIE files" on,     *)
(* about Sie, which is built on the same Accounting: any journal, files    *)
(* and imports.                                                            *)
(***************************************************************************)
EXTENDS Books, Sie, LedgerProofs, SequenceTheorems

-----------------------------------------------------------------------------
(* Every operation computes amounts                                        *)

LEMMA AmountsAre ==
  /\ MaxAmount \in Nat /\ MaxAmount > 0
  /\ 0 \in Amount /\ \A n \in Amount : n \in Int /\ -MaxAmount - 1 <= n /\ n <= MaxAmount
  BY AccountingAssumption DEF Amount

LEMMA SeqDomain ==
  ASSUME NEW X, NEW s \in Seq(X)
  PROVE  /\ DOMAIN s = 1 .. Len(s) /\ Len(s) \in Nat /\ IsFiniteSet(DOMAIN s)
         /\ \A i \in DOMAIN s : s[i] \in X
<1>1. DOMAIN s = 1 .. Len(s) /\ Len(s) \in Nat /\ \A i \in 1 .. Len(s) : s[i] \in X
  OBVIOUS
<1>2. IsFiniteSet(1 .. Len(s))
  BY <1>1, FS_Interval
<1> QED
  BY <1>1, <1>2

LEMMA QuotientType ==
  ASSUME NEW n \in Amount, NEW d \in Nat \ {0}
  PROVE  /\ Quotient(n, d) \in Amount
         /\ -d < n /\ n < d => Quotient(n, d) = 0
<1>1. \A m \in Nat : m \div d \in Nat /\ m \div d <= m /\ (m < d => m \div d = 0)
  <2> SUFFICES ASSUME NEW m \in Nat
               PROVE  m \div d \in Nat /\ m \div d <= m /\ (m < d => m \div d = 0)
    OBVIOUS
  <2> DEFINE q == m \div d
             r == m % d
  <2>1. m = d * q + r /\ 0 <= r /\ r < d /\ q \in Int /\ r \in Int /\ d \in Nat /\ d >= 1
    OBVIOUS
  <2> HIDE DEF q, r
  <2>2. q >= 0
    BY <2>1
  <2>3. d * q >= q
    BY <2>1, <2>2
  <2>4. m < d => q = 0
    BY <2>1, <2>2
  <2> QED
    BY <2>1, <2>2, <2>3, <2>4 DEF q
<1>2. CASE n >= 0
  <2>1. n \in Nat /\ n <= MaxAmount
    BY <1>2, AmountsAre
  <2>2. n \div d \in Nat /\ n \div d <= n /\ (n < d => n \div d = 0)
    BY <1>1, <2>1
  <2>3. Quotient(n, d) = n \div d
    BY <1>2 DEF Quotient
  <2> DEFINE q == n \div d
  <2> HIDE DEF q
  <2>4. q \in Nat /\ q <= n /\ (n < d => q = 0) /\ Quotient(n, d) = q
    BY <2>2, <2>3 DEF q
  <2> QED
    BY <2>1, <2>4, AmountsAre DEF Amount
<1>3. CASE n < 0
  <2>1. -n \in Nat /\ -n <= MaxAmount + 1
    BY <1>3, AmountsAre
  <2> DEFINE q == (-n) \div d
  <2>2. q \in Nat /\ q <= -n /\ (-n < d => q = 0)
    BY <1>1, <2>1
  <2>3. Quotient(n, d) = -q
    BY <1>3, AmountsAre DEF Quotient
  <2> HIDE DEF q
  <2> QED
    BY <1>3, <2>1, <2>2, <2>3, AmountsAre DEF Amount
<1> QED
  BY <1>2, <1>3, AmountsAre

LEMMA RoundType ==
  ASSUME NEW n \in Int, NEW d \in Nat \ {0}
  PROVE  Round(n, d) \in Amount
<1>1. d \div 2 \in Int
  OBVIOUS
<1>2. Wrap(n + d \div 2) \in Amount /\ Wrap(n - d \div 2) \in Amount
  BY <1>1, WrapType
<1> QED
  BY <1>2, QuotientType DEF Round

\* Half a unit never rounds up to one, not even when it does not fit.
LEMMA RoundZero ==
  ASSUME NEW d \in Nat \ {0}, d > 1
  PROVE  Round(0, d) = 0
<1> DEFINE h == d \div 2
<1>1. h \in Nat /\ h < d
  OBVIOUS
<1>2. Round(0, d) = Quotient(Wrap(h), d)
  BY DEF Round
<1> HIDE DEF h
<1>3. Wrap(h) \in Amount
  BY <1>1, WrapType
<1>4. -d < Wrap(h) /\ Wrap(h) < d
  <2>1. CASE h <= MaxAmount
    <3>1. h \in Amount
      BY <1>1, <2>1, AmountsAre DEF Amount
    <3> QED
      BY <1>1, <3>1, WrapId
  <2>2. CASE h > MaxAmount
    BY <1>1, <1>3, <2>2, AmountsAre
  <2> QED
    BY <1>1, <2>1, <2>2, AmountsAre
<1> QED
  BY <1>2, <1>3, <1>4, QuotientType

LEMMA DebitType ==
  ASSUME NEW a \in Nat, NEW n \in Amount
  PROVE  /\ Debit(a, n) \in Line /\ Debit(a, n).account = a /\ Debit(a, n).debit = n /\ Debit(a, n).credit = 0
         /\ Credit(a, n) \in Line /\ Credit(a, n).account = a /\ Credit(a, n).credit = n /\ Credit(a, n).debit = 0
  BY AmountsAre DEF Debit, Credit, Line

\* Lines of a voucher, put together.
LEMMA ShortSeqs ==
  /\ << >> \in Seq(Line)
  /\ \A k \in Line : <<k>> \in Seq(Line)
  /\ \A k, l \in Line : <<k, l>> \in Seq(Line)
  /\ \A k, l, m \in Line : <<k, l, m>> \in Seq(Line)
  /\ \A k, l, m, n \in Line : <<k, l, m, n>> \in Seq(Line)
  OBVIOUS

LEMMA SameSeq ==
  ASSUME NEW s \in Seq(Line), NEW t \in Seq(Line), NEW n \in Nat, Len(s) = n, Len(t) = n,
         \A i \in 1 .. n : s[i] = t[i]
  PROVE  s = t
  BY SeqEqual

LEMMA OneAndOne ==
  ASSUME NEW k \in Line, NEW l \in Line
  PROVE  <<k>> \o <<l>> = <<k, l>>
<1> DEFINE s == <<k>> \o <<l>>
           t == <<k, l>>
<1>1. t \in Seq(Line) /\ Len(t) = 2 /\ t[1] = k /\ t[2] = l
  OBVIOUS
<1>2. Len(s) = 2 /\ s \in Seq(Line) /\ s[1] = k /\ s[2] = l
  <2>1. <<k>> \in Seq(Line) /\ <<l>> \in Seq(Line) /\ Len(<<k>>) = 1 /\ Len(<<l>>) = 1
    OBVIOUS
  <2> QED
    BY <2>1, ConcatProperties
<1> HIDE DEF s, t
<1>3. \A i \in 1 .. 2 : s[i] = t[i]
  BY <1>1, <1>2
<1>4. s = t
  BY <1>1, <1>2, <1>3, SameSeq
<1> QED
  BY <1>4 DEF s, t

LEMMA TwoAndOne ==
  ASSUME NEW k \in Line, NEW l \in Line, NEW m \in Line
  PROVE  <<k, l>> \o <<m>> = <<k, l, m>>
<1> DEFINE s == <<k, l>> \o <<m>>
           t == <<k, l, m>>
<1>1. t \in Seq(Line) /\ Len(t) = 3 /\ t[1] = k /\ t[2] = l /\ t[3] = m
  OBVIOUS
<1>2. Len(s) = 3 /\ s \in Seq(Line) /\ s[1] = k /\ s[2] = l /\ s[3] = m
  OBVIOUS
<1> HIDE DEF s, t
<1>3. \A i \in 1 .. 3 : s[i] = t[i]
  BY <1>1, <1>2
<1>4. s = t
  BY <1>1, <1>2, <1>3, SameSeq
<1> QED
  BY <1>4 DEF s, t

LEMMA TwoAndTwo ==
  ASSUME NEW k \in Line, NEW l \in Line, NEW m \in Line, NEW n \in Line
  PROVE  <<k, l>> \o <<m, n>> = <<k, l, m, n>>
<1> DEFINE s == <<k, l>> \o <<m, n>>
           t == <<k, l, m, n>>
<1>1. t \in Seq(Line) /\ Len(t) = 4 /\ t[1] = k /\ t[2] = l /\ t[3] = m /\ t[4] = n
  OBVIOUS
<1>2. Len(s) = 4 /\ s \in Seq(Line) /\ s[1] = k /\ s[2] = l /\ s[3] = m /\ s[4] = n
  OBVIOUS
<1> HIDE DEF s, t
<1>3. \A i \in 1 .. 4 : s[i] = t[i]
  BY <1>1, <1>2
<1>4. s = t
  BY <1>1, <1>2, <1>3, SameSeq
<1> QED
  BY <1>4 DEF s, t

LEMMA TwoAndNone ==
  ASSUME NEW k \in Line, NEW l \in Line
  PROVE  <<k, l>> \o << >> = <<k, l>>
  OBVIOUS

\* The lines of an invoice have prices, quantities and a code.
InvoiceOK(d) == d.rate \in Amount /\ d.lines \in Seq([price : Amount, qty : Amount, code : STRING])

LEMMA NetType ==
  ASSUME NEW l \in [price : Amount, qty : Amount, code : STRING]
  PROVE  Net(l) \in Amount /\ LineVAT(l) \in Amount /\ (Rate(l.code) = 0 => LineVAT(l) = 0)
<1>1. l.price \in Int /\ l.qty \in Int
  BY AmountsAre
<1>2. l.price * l.qty \in Int
  BY <1>1
<1>3. Wrap(l.price * l.qty) \in Int
  BY <1>2, WrapType, AmountsAre
<1>4. Net(l) \in Amount
  BY <1>3, RoundType DEF Net
<1>5. Rate(l.code) \in {0, 6, 12, 25}
  BY DEF Rate
<1>6. Net(l) \in Int /\ Rate(l.code) \in Int
  BY <1>4, <1>5, AmountsAre
<1>7. Net(l) * Rate(l.code) \in Int
  BY <1>6
<1>8. Wrap(Net(l) * Rate(l.code)) \in Int
  BY <1>7, WrapType, AmountsAre
<1>9. LineVAT(l) \in Amount
  BY <1>8, RoundType DEF LineVAT, VAT
<1>10. Rate(l.code) = 0 => LineVAT(l) = 0
  <2> SUFFICES ASSUME Rate(l.code) = 0 PROVE LineVAT(l) = 0
    OBVIOUS
  <2>1. Net(l) * Rate(l.code) = 0
    BY <1>6
  <2>2. Wrap(0) = 0
    BY WrapId, AmountsAre
  <2>3. Round(0, 100) = 0
    BY RoundZero
  <2> QED
    BY <2>1, <2>2, <2>3 DEF LineVAT, VAT
<1> QED
  BY <1>4, <1>9, <1>10

\* What a code adds up to, in SEK.
LEMMA CodeType ==
  ASSUME NEW d, InvoiceOK(d), NEW c
  PROVE  NetSEK(d, c) \in Amount /\ VatSEK(d, c) \in Amount /\ (Rate(c) = 0 => VatSEK(d, c) = 0)
<1> DEFINE S == {j \in DOMAIN d.lines : d.lines[j].code = c}
           N == [i \in S |-> Net(d.lines[i])]
           V == [i \in S |-> LineVAT(d.lines[i])]
<1>0. IsFiniteSet(DOMAIN d.lines) /\ \A i \in DOMAIN d.lines : d.lines[i] \in [price : Amount, qty : Amount, code : STRING]
  BY SeqDomain DEF InvoiceOK
<1>1. IsFiniteSet(S)
  BY <1>0, FS_Subset
<1>2. ASSUME NEW i \in S
      PROVE  /\ Net(d.lines[i]) \in Int /\ LineVAT(d.lines[i]) \in Int
             /\ (Rate(c) = 0 => LineVAT(d.lines[i]) = 0)
  <2>1. d.lines[i] \in [price : Amount, qty : Amount, code : STRING] /\ d.lines[i].code = c
    BY <1>0
  <2> QED
    BY <2>1, NetType, AmountsAre
<1>3. N \in [S -> Int] /\ V \in [S -> Int]
  BY <1>2
<1>4. DOMAIN V = S /\ (Rate(c) = 0 => \A i \in S : V[i] = 0)
  BY <1>2
<1>5. NetSEK(d, c) = Round(Wrap(Wrap(SumFunction(N)) * d.rate), 1000000)
  BY DEF NetSEK, convertToSEK, SumOfCode
<1>6. VatSEK(d, c) = Round(Wrap(Wrap(SumFunction(V)) * d.rate), 1000000)
  BY DEF VatSEK, convertToSEK, SumOfCode
<1> HIDE DEF S, N, V
<1>7. SumFunction(N) \in Int /\ SumFunction(V) \in Int
  BY <1>1, <1>3, SumFunctionType
<1>8. ASSUME NEW n \in Int
      PROVE  Round(Wrap(Wrap(n) * d.rate), 1000000) \in Amount
  <2>1. Wrap(n) \in Int /\ d.rate \in Int
    BY WrapType, AmountsAre DEF InvoiceOK
  <2>2. Wrap(n) * d.rate \in Int
    BY <2>1
  <2>3. Wrap(Wrap(n) * d.rate) \in Int
    BY <2>2, WrapType, AmountsAre
  <2> QED
    BY <2>3, RoundType
<1>9. ASSUME Rate(c) = 0 PROVE VatSEK(d, c) = 0
  <2>1. SumFunction(V) = 0
    BY <1>1, <1>4, <1>9, SumZero DEF SumFunction
  <2>2. Wrap(0) = 0 /\ Round(0, 1000000) = 0
    BY WrapId, RoundZero, AmountsAre
  <2>3. 0 * d.rate = 0
    BY AmountsAre DEF InvoiceOK
  <2> QED
    BY <1>6, <2>1, <2>2, <2>3
<1> QED
  BY <1>5, <1>6, <1>7, <1>8, <1>9

LEMMA CodesFinite ==
  ASSUME NEW d, InvoiceOK(d)
  PROVE  IsFiniteSet(CodesOf(d))
<1> DEFINE D == DOMAIN d.lines
           f == [i \in D |-> d.lines[i].code]
<1>1. IsFiniteSet(D)
  BY SeqDomain DEF InvoiceOK
<1>2. f \in Surjection(D, CodesOf(d))
  BY DEF Surjection, CodesOf
<1> HIDE DEF f
<1> QED
  BY <1>1, <1>2, FS_Surjection

LEMMA GrossType ==
  ASSUME NEW d, InvoiceOK(d), NEW C, C \subseteq CodesOf(d)
  PROVE  GrossOf(d, C) \in Amount
<1> DEFINE f == [c \in C |-> NetSEK(d, c) + VatSEK(d, c)]
<1>1. IsFiniteSet(C)
  BY CodesFinite, FS_Subset
<1>2. \A c : NetSEK(d, c) \in Int /\ VatSEK(d, c) \in Int
  BY CodeType, AmountsAre
<1>3. f \in [C -> Int]
  BY <1>2
<1>4. GrossOf(d, C) = Wrap(SumFunction(f))
  BY DEF GrossOf
<1> HIDE DEF f
<1>5. SumFunction(f) \in Int
  BY <1>1, <1>3, SumFunctionType
<1> QED
  BY <1>4, <1>5, WrapType

\* The sales lines of a code are on sales and VAT accounts.
SaleAccounts == {3001, 3002, 3003, 3305, 3308, 2611, 2621, 2631}

LEMMA SalesLinesType ==
  ASSUME NEW d, InvoiceOK(d), NEW c \in Range(codeOrder)
  PROVE  /\ SalesLines(d, c) \in Seq(Line)
         /\ \A i \in 1 .. Len(SalesLines(d, c)) : SalesLines(d, c)[i].account \in SaleAccounts
<1>1. c \in {"SE25", "SE12", "SE06", "RCEU", "EXP"}
  BY DEF codeOrder, Range
<1>2. SalesAccountForCode[c] \in SaleAccounts /\ SalesAccountForCode[c] \in Nat
  BY <1>1 DEF SalesAccountForCode, SaleAccounts
<1>3. NetSEK(d, c) \in Amount /\ VatSEK(d, c) \in Amount
  BY CodeType
<1> DEFINE k == Credit(SalesAccountForCode[c], NetSEK(d, c))
           l == Credit(OutputAccount[c], VatSEK(d, c))
<1>4. k \in Line /\ k.account \in SaleAccounts
  BY <1>2, <1>3, DebitType
<1>5. VatSEK(d, c) # 0 => l \in Line /\ l.account \in SaleAccounts
  <2>1. VatSEK(d, c) # 0 => c \in {"SE25", "SE12", "SE06"}
    BY <1>1, CodeType DEF Rate
  <2>2. c \in {"SE25", "SE12", "SE06"} => OutputAccount[c] \in SaleAccounts /\ OutputAccount[c] \in Nat
    BY DEF OutputAccount, SaleAccounts
  <2> QED
    BY <1>3, <2>1, <2>2, DebitType
<1>6. SalesLines(d, c) = IF c \notin CodesOf(d) THEN << >>
                         ELSE <<k>> \o IF VatSEK(d, c) # 0 THEN <<l>> ELSE << >>
  BY DEF SalesLines
<1> HIDE DEF k, l
<1>7. CASE c \notin CodesOf(d)
  BY <1>6, <1>7, ShortSeqs
<1>8. CASE c \in CodesOf(d) /\ VatSEK(d, c) # 0
  <2>1. SalesLines(d, c) = <<k>> \o <<l>>
    BY <1>6, <1>8, Zenon
  <2>2. <<k>> \o <<l>> = <<k, l>>
    BY <1>4, <1>5, <1>8, OneAndOne
  <2>3. SalesLines(d, c) = <<k, l>>
    BY <2>1, <2>2, Zenon
  <2> QED
    BY <1>4, <1>5, <1>8, <2>3, ShortSeqs
<1>9. CASE c \in CodesOf(d) /\ VatSEK(d, c) = 0
  <2>1. SalesLines(d, c) = <<k>>
    BY <1>6, <1>9
  <2> QED
    BY <1>4, <2>1, ShortSeqs
<1> QED
  BY <1>7, <1>8, <1>9

\* A voucher of an invoice debits 1510 with the gross in its first line, and no
\* other line is on 1510.
LEMMA ConcatLines ==
  ASSUME NEW s \in Seq(Line), NEW t \in Seq(Line), NEW A,
         \A i \in 1 .. Len(s) : i > 1 => s[i].account \in A,
         \A i \in 1 .. Len(t) : t[i].account \in A, Len(s) >= 1
  PROVE  /\ s \o t \in Seq(Line) /\ Len(s \o t) >= 1 /\ (s \o t)[1] = s[1]
         /\ \A i \in 1 .. Len(s \o t) : i > 1 => (s \o t)[i].account \in A
<1>1. /\ s \o t \in Seq(Line) /\ Len(s \o t) = Len(s) + Len(t) /\ Len(s) \in Nat /\ Len(t) \in Nat
      /\ \A i \in 1 .. Len(s) + Len(t) : (s \o t)[i] = IF i <= Len(s) THEN s[i] ELSE t[i - Len(s)]
  BY ConcatProperties
<1>2. ASSUME NEW i \in 1 .. Len(s \o t), i > 1 PROVE (s \o t)[i].account \in A
  <2>1. CASE i <= Len(s)
    BY <1>1, <1>2, <2>1
  <2>2. CASE i > Len(s)
    <3>1. i - Len(s) \in 1 .. Len(t)
      BY <1>1, <2>2
    <3> QED
      BY <1>1, <2>2, <3>1
  <2> QED
    BY <1>1, <2>1, <2>2
<1> QED
  BY <1>1, <1>2

BooksSale(d) ==
  LET v == VerificationLines(d)
      g == GrossOf(d, CodesOf(d) \cap Range(codeOrder))
  IN  /\ v \in Seq(Line) /\ Len(v) >= 1 /\ v[1] = Debit(1510, g) /\ g \in Amount
      /\ \A i \in 1 .. Len(v) : i > 1 => v[i].account \in SaleAccounts

LEMMA VerificationLinesType ==
  ASSUME NEW d, InvoiceOK(d)
  PROVE  BooksSale(d)
<1> DEFINE g == GrossOf(d, CodesOf(d) \cap Range(codeOrder))
           s0 == <<Debit(1510, g)>>
           t1 == SalesLines(d, codeOrder[1])
           t2 == SalesLines(d, codeOrder[2])
           t3 == SalesLines(d, codeOrder[3])
           t4 == SalesLines(d, codeOrder[4])
           t5 == SalesLines(d, codeOrder[5])
           Good(s) == /\ s \in Seq(Line) /\ Len(s) >= 1 /\ s[1] = Debit(1510, g)
                      /\ \A i \in 1 .. Len(s) : i > 1 => s[i].account \in SaleAccounts
           Rest(t) == t \in Seq(Line) /\ \A i \in 1 .. Len(t) : t[i].account \in SaleAccounts
<1>1. g \in Amount
  BY GrossType
<1>2. Good(s0)
  <2>1. Debit(1510, g) \in Line
    BY <1>1, DebitType
  <2> QED
    BY <2>1, ShortSeqs
<1>3. \A i \in 1 .. 5 : codeOrder[i] \in Range(codeOrder)
  BY DEF codeOrder, Range
<1>4. Rest(t1) /\ Rest(t2) /\ Rest(t3) /\ Rest(t4) /\ Rest(t5)
  BY <1>3, SalesLinesType
<1>5. ASSUME NEW s, NEW t, Good(s), Rest(t) PROVE Good(s \o t)
  BY <1>5, ConcatLines
<1>6. VerificationLines(d) = s0 \o t1 \o t2 \o t3 \o t4 \o t5
  BY DEF VerificationLines
<1> HIDE DEF s0, t1, t2, t3, t4, t5, Good, Rest
<1>7. Good(s0 \o t1 \o t2 \o t3 \o t4 \o t5)
  BY <1>2, <1>4, <1>5
<1>8. Good(VerificationLines(d))
  BY <1>6, <1>7
<1> QED
  BY <1>1, <1>8 DEF Good, BooksSale

LEMMA VerificationLinesSeq ==
  ASSUME NEW d, InvoiceOK(d)
  PROVE  VerificationLines(d) \in Seq(Line)
<1>1. BooksSale(d)
  BY VerificationLinesType
<1> QED
  BY <1>1 DEF BooksSale

-----------------------------------------------------------------------------
(* What lines add to an account                                            *)

On(l, a) == IF l.account = a THEN l.debit - l.credit ELSE 0

LEMMA LineType ==
  ASSUME NEW l \in Line
  PROVE  l.account \in Nat /\ l.debit \in Amount /\ l.credit \in Amount
  BY DEF Line

LEMMA OnType ==
  ASSUME NEW l \in Line, NEW a
  PROVE  On(l, a) \in Int
<1>1. l.debit \in Int /\ l.credit \in Int
  BY LineType, AmountsAre
<1> QED
  BY <1>1 DEF On

LEMMA NetOnType ==
  ASSUME NEW s \in Seq(Line), NEW a
  PROVE  NetOn(s, a) \in Int
<1> DEFINE S == {j \in DOMAIN s : s[j].account = a}
           f == [i \in S |-> s[i].debit - s[i].credit]
<1>1. IsFiniteSet(DOMAIN s) /\ \A i \in DOMAIN s : s[i] \in Line
  BY SeqDomain
<1>2. IsFiniteSet(S)
  BY <1>1, FS_Subset
<1>3. \A i \in S : s[i].debit \in Int /\ s[i].credit \in Int
  BY <1>1, LineType, AmountsAre
<1>4. f \in [S -> Int]
  BY <1>3
<1>5. NetOn(s, a) = SumFunction(f)
  BY DEF NetOn
<1> HIDE DEF f
<1> QED
  BY <1>2, <1>4, <1>5, SumFunctionType

LEMMA NetOnNone ==
  ASSUME NEW s \in Seq(Line), NEW a, \A i \in 1 .. Len(s) : s[i].account # a
  PROVE  NetOn(s, a) = 0
<1> DEFINE S == {j \in DOMAIN s : s[j].account = a}
           f == [i \in S |-> s[i].debit - s[i].credit]
<1>1. S = {}
  BY SeqDomain
<1>2. DOMAIN f = {}
  BY <1>1
<1>3. NetOn(s, a) = SumFunction(f)
  BY DEF NetOn
<1> HIDE DEF f
<1> QED
  BY <1>2, <1>3, SumOfNone DEF SumFunction

LEMMA NetOnOne ==
  ASSUME NEW s \in Seq(Line), NEW a, NEW k \in 1 .. Len(s), s[k].account = a,
         \A i \in 1 .. Len(s) : s[i].account = a => i = k
  PROVE  NetOn(s, a) = s[k].debit - s[k].credit
<1> DEFINE S == {j \in DOMAIN s : s[j].account = a}
           f == [i \in S |-> s[i].debit - s[i].credit]
<1>1. S = {k}
  BY SeqDomain
<1>2. s[k].debit \in Int /\ s[k].credit \in Int
  BY SeqDomain, LineType, AmountsAre
<1>3. DOMAIN f = {k} /\ f[k] = s[k].debit - s[k].credit /\ f[k] \in Int
  BY <1>1, <1>2
<1>4. NetOn(s, a) = SumFunction(f)
  BY DEF NetOn
<1> HIDE DEF f, S
<1> QED
  BY <1>3, <1>4, SumOfOne

LEMMA NetOnAppend ==
  ASSUME NEW s \in Seq(Line), NEW l \in Line, NEW a
  PROVE  NetOn(Append(s, l), a) = NetOn(s, a) + On(l, a)
<1> DEFINE t == Append(s, l)
           n == Len(s) + 1
           S == {j \in DOMAIN s : s[j].account = a}
           T == {j \in DOMAIN t : t[j].account = a}
           f == [i \in S |-> s[i].debit - s[i].credit]
           g == [i \in T |-> t[i].debit - t[i].credit]
<1>1. /\ t \in Seq(Line) /\ DOMAIN t = DOMAIN s \cup {n} /\ n \notin DOMAIN s
      /\ t[n] = l /\ \A i \in DOMAIN s : t[i] = s[i]
  BY AppendProperties, SeqDomain
<1>2. IsFiniteSet(DOMAIN s) /\ \A i \in DOMAIN s : s[i] \in Line
  BY SeqDomain
<1>3. IsFiniteSet(S) /\ n \notin S
  BY <1>1, <1>2, FS_Subset
<1>4. l.debit \in Int /\ l.credit \in Int /\ \A i \in S : s[i].debit \in Int /\ s[i].credit \in Int
  BY <1>2, LineType, AmountsAre
<1>5. T = IF l.account = a THEN S \cup {n} ELSE S
  BY <1>1
<1>6. NetOn(s, a) = SumFunctionOnSet(f, S) /\ NetOn(t, a) = SumFunctionOnSet(g, T)
  <2>1. DOMAIN f = S /\ DOMAIN g = T
    OBVIOUS
  <2>2. NetOn(s, a) = SumFunction(f) /\ NetOn(t, a) = SumFunction(g)
    BY DEF NetOn
  <2> HIDE DEF f, g, S, T, t
  <2> QED
    BY <2>1, <2>2 DEF SumFunction
<1>7. \A i \in S : g[i] = f[i] /\ f[i] \in Int
  BY <1>1, <1>4, <1>5
<1>8. l.account = a => g[n] = l.debit - l.credit /\ g[n] \in Int
  BY <1>1, <1>4, <1>5
<1>9. SumFunctionOnSet(g, S) = SumFunctionOnSet(f, S) /\ SumFunctionOnSet(f, S) \in Int
  <2> HIDE DEF f, g, S, T, t, n
  <2> QED
    BY <1>3, <1>7, SumSame, SumType
<1>10. CASE l.account = a
  <2> HIDE DEF f, g, S, T, t, n
  <2>1. \A i \in S \cup {n} : g[i] \in Int
    BY <1>7, <1>8, <1>10
  <2>2. SumFunctionOnSet(g, S \cup {n}) = SumFunctionOnSet(g, S) + g[n]
    BY <1>3, <2>1, SumWith
  <2>3. On(l, a) = g[n]
    BY <1>8, <1>10 DEF On
  <2>4. NetOn(t, a) = NetOn(s, a) + On(l, a)
    BY <1>5, <1>6, <1>9, <1>10, <2>2, <2>3
  <2> QED
    BY <2>4 DEF t
<1>11. CASE l.account # a
  <2> HIDE DEF f, g, S, T, t, n
  <2>1. On(l, a) = 0
    BY <1>11 DEF On
  <2>2. NetOn(t, a) = NetOn(s, a) + On(l, a)
    BY <1>5, <1>6, <1>9, <1>11, <2>1
  <2> QED
    BY <2>2 DEF t
<1> QED
  BY <1>10, <1>11

\* The vouchers of two, three and four lines.
LEMMA NetOnTwo ==
  ASSUME NEW k \in Line, NEW l \in Line, NEW a
  PROVE  NetOn(<<k, l>>, a) = On(k, a) + On(l, a)
<1>1. << >> \in Seq(Line) /\ <<k>> \in Seq(Line) /\ <<k, l>> \in Seq(Line)
  BY ShortSeqs
<1>2. <<k>> = Append(<< >>, k) /\ <<k, l>> = Append(<<k>>, l)
  OBVIOUS
<1>3. NetOn(<< >>, a) = 0
  <2> DEFINE e == << >>
  <2>1. e \in Seq(Line) /\ \A i \in 1 .. Len(e) : e[i].account # a
    OBVIOUS
  <2> HIDE DEF e
  <2>2. NetOn(e, a) = 0
    BY <2>1, NetOnNone
  <2> QED
    BY <2>2 DEF e
<1>4. NetOn(<<k>>, a) = On(k, a)
  <2>1. NetOn(Append(<< >>, k), a) = NetOn(<< >>, a) + On(k, a)
    BY <1>1, NetOnAppend
  <2>2. On(k, a) \in Int
    BY OnType
  <2>3. NetOn(<<k>>, a) = NetOn(Append(<< >>, k), a)
    BY <1>2, Zenon
  <2> QED
    BY <1>3, <2>1, <2>2, <2>3
<1> DEFINE s == <<k>>
           t == <<k, l>>
<1>5. t = Append(s, l) /\ s \in Seq(Line) /\ NetOn(s, a) = On(k, a)
  BY <1>1, <1>2, <1>4
<1> HIDE DEF s, t
<1>6. NetOn(t, a) = NetOn(s, a) + On(l, a)
  BY <1>5, NetOnAppend
<1> QED
  BY <1>5, <1>6 DEF t

LEMMA NetOnThree ==
  ASSUME NEW k \in Line, NEW l \in Line, NEW m \in Line, NEW a
  PROVE  NetOn(<<k, l, m>>, a) = On(k, a) + On(l, a) + On(m, a)
<1> DEFINE s == <<k, l>>
           t == <<k, l, m>>
<1>1. t = Append(s, m) /\ s \in Seq(Line)
  OBVIOUS
<1>2. NetOn(s, a) = On(k, a) + On(l, a)
  BY NetOnTwo
<1> HIDE DEF s, t
<1>3. NetOn(t, a) = NetOn(s, a) + On(m, a)
  BY <1>1, NetOnAppend
<1>4. NetOn(t, a) = On(k, a) + On(l, a) + On(m, a)
  BY <1>2, <1>3
<1> QED
  BY <1>4 DEF t

LEMMA NetOnFour ==
  ASSUME NEW k \in Line, NEW l \in Line, NEW m \in Line, NEW n \in Line, NEW a
  PROVE  NetOn(<<k, l, m, n>>, a) = On(k, a) + On(l, a) + On(m, a) + On(n, a)
<1> DEFINE s == <<k, l, m>>
           t == <<k, l, m, n>>
<1>1. t = Append(s, n) /\ s \in Seq(Line)
  OBVIOUS
<1>2. NetOn(s, a) = On(k, a) + On(l, a) + On(m, a)
  BY NetOnThree
<1> HIDE DEF s, t
<1>3. NetOn(t, a) = NetOn(s, a) + On(n, a)
  BY <1>1, NetOnAppend
<1>4. NetOn(t, a) = On(k, a) + On(l, a) + On(m, a) + On(n, a)
  BY <1>2, <1>3
<1> QED
  BY <1>4 DEF t

-----------------------------------------------------------------------------
(* The vouchers of bills and payments                                      *)

LEMMA VatType ==
  ASSUME NEW net \in Amount, NEW rate \in Nat
  PROVE  VAT(net, rate) \in Amount /\ Wrap(net + VAT(net, rate)) \in Amount
<1>1. net \in Int
  BY AmountsAre
<1>2. net * rate \in Int
  BY <1>1
<1>3. Wrap(net * rate) \in Int
  BY <1>2, WrapType, AmountsAre
<1>4. VAT(net, rate) \in Amount
  BY <1>3, RoundType DEF VAT
<1>5. VAT(net, rate) \in Int
  BY <1>4, AmountsAre
<1>6. net + VAT(net, rate) \in Int
  BY <1>1, <1>5
<1> QED
  BY <1>4, <1>6, WrapType

\* A bill books its debt on 2440, and nothing else there.
LEMMA PurchaseLinesType ==
  ASSUME NEW cost \in Nat, NEW net \in Amount, NEW code
  PROVE  /\ PurchaseLines(cost, net, code) \in Seq(Line) /\ Payable(net, code) \in Amount
         /\ cost # 2440 => NetOn(PurchaseLines(cost, net, code), 2440) = -Payable(net, code)
<1>1. CASE code \in DOMAIN domesticRate
  <2> DEFINE vat == VAT(net, domesticRate[code])
             gross == Wrap(net + vat)
             k == Debit(cost, net)
             l == Debit(2640, vat)
             m == Credit(2440, gross)
  <2>1. domesticRate[code] \in Nat
    BY <1>1 DEF domesticRate
  <2>2. vat \in Amount /\ gross \in Amount
    BY <2>1, VatType
  <2>3. PurchaseLines(cost, net, code) = <<k, l, m>> /\ Payable(net, code) = gross
    BY <1>1 DEF PurchaseLines, Payable
  <2> HIDE DEF vat, gross
  <2>4. k \in Line /\ l \in Line /\ m \in Line
    BY <2>2, DebitType
  <2>5. m.account = 2440 /\ m.debit = 0 /\ m.credit = gross /\ l.account = 2640 /\ k.account = cost
    BY DEF Debit, Credit
  <2> HIDE DEF k, l, m
  <2>6. On(l, 2440) = 0 /\ On(m, 2440) = -gross /\ (cost # 2440 => On(k, 2440) = 0)
    BY <2>2, <2>5, AmountsAre DEF On
  <2>7. NetOn(<<k, l, m>>, 2440) = On(k, 2440) + On(l, 2440) + On(m, 2440)
    BY <2>4, NetOnTwo, NetOnThree, NetOnFour
  <2>8. <<k, l, m>> \in Seq(Line) /\ (cost # 2440 => NetOn(<<k, l, m>>, 2440) = -gross)
    BY <2>2, <2>4, <2>6, <2>7, ShortSeqs, AmountsAre
  <2> QED
    BY <2>2, <2>3, <2>8
<1>2. CASE code \notin DOMAIN domesticRate /\ code \in {"PEU", "PIMP"}
  <2> DEFINE vat == VAT(net, 25)
             c == IF code = "PIMP" THEN 4531 ELSE 4535
             k == Debit(c, net)
             l == Credit(2440, net)
             m == Credit(2614, vat)
             n == Debit(2645, vat)
  <2>1. c \in Nat /\ c # 2440
    OBVIOUS
  <2>2. vat \in Amount
    BY VatType
  <2>3. PurchaseLines(cost, net, code) = <<k, l, m, n>> /\ Payable(net, code) = net
    BY <1>2 DEF PurchaseLines, Payable
  <2> HIDE DEF vat, c
  <2>4. k \in Line /\ l \in Line /\ m \in Line /\ n \in Line
    BY <2>1, <2>2, DebitType
  <2>5. /\ l.account = 2440 /\ l.debit = 0 /\ l.credit = net
        /\ k.account = c /\ m.account = 2614 /\ n.account = 2645
    BY DEF Debit, Credit
  <2> HIDE DEF k, l, m, n
  <2>6. On(k, 2440) = 0 /\ On(l, 2440) = -net /\ On(m, 2440) = 0 /\ On(n, 2440) = 0
    BY <2>1, <2>5, AmountsAre DEF On
  <2>7. NetOn(<<k, l, m, n>>, 2440) = On(k, 2440) + On(l, 2440) + On(m, 2440) + On(n, 2440)
    BY <2>4, NetOnTwo, NetOnThree, NetOnFour
  <2>8. <<k, l, m, n>> \in Seq(Line) /\ NetOn(<<k, l, m, n>>, 2440) = -net
    BY <2>4, <2>6, <2>7, ShortSeqs, AmountsAre
  <2> QED
    BY <2>3, <2>8
<1>3. CASE code \notin DOMAIN domesticRate /\ code \notin {"PEU", "PIMP"}
  <2> DEFINE k == Debit(cost, net)
             l == Credit(2440, net)
  <2>1. PurchaseLines(cost, net, code) = <<k, l>> /\ Payable(net, code) = net
    BY <1>3 DEF PurchaseLines, Payable
  <2>2. k \in Line /\ l \in Line
    BY DebitType
  <2>3. l.account = 2440 /\ l.debit = 0 /\ l.credit = net /\ k.account = cost
    BY DEF Debit, Credit
  <2> HIDE DEF k, l
  <2>4. On(l, 2440) = -net /\ (cost # 2440 => On(k, 2440) = 0)
    BY <2>3, AmountsAre DEF On
  <2>5. NetOn(<<k, l>>, 2440) = On(k, 2440) + On(l, 2440)
    BY <2>2, NetOnTwo, NetOnThree, NetOnFour
  <2>6. <<k, l>> \in Seq(Line) /\ (cost # 2440 => NetOn(<<k, l>>, 2440) = -net)
    BY <2>2, <2>4, <2>5, ShortSeqs, AmountsAre
  <2> QED
    BY <2>1, <2>6
<1> QED
  BY <1>1, <1>2, <1>3

\* The payment of a bill clears its whole debt, whatever was paid.
LEMMA SupplierPaymentLinesType ==
  ASSUME NEW gross \in Amount, NEW sum \in Amount
  PROVE  /\ SupplierPaymentLines(gross, sum) \in Seq(Line)
         /\ NetOn(SupplierPaymentLines(gross, sum), 2440) = gross
<1> DEFINE diff == Wrap(gross - sum)
           k == Debit(2440, gross)
           l == Credit(1930, sum)
           m == Credit(3740, diff)
           n == Debit(3740, Wrap(-diff))
           lines == SupplierPaymentLines(gross, sum)
<1>1. gross - sum \in Int
  BY AmountsAre
<1>2. diff \in Amount
  BY <1>1, WrapType
<1>3. -diff \in Int
  BY <1>2, AmountsAre
<1>4. Wrap(-diff) \in Amount
  BY <1>3, WrapType
<1>5. lines = <<k, l>> \o IF diff > 0 THEN <<m>> ELSE IF diff < 0 THEN <<n>> ELSE << >>
  BY DEF SupplierPaymentLines
<1>6. k \in Line /\ l \in Line /\ m \in Line /\ n \in Line
  <2> HIDE DEF diff
  <2> QED
    BY <1>2, <1>4, DebitType
<1>7. /\ k.account = 2440 /\ k.debit = gross /\ k.credit = 0
      /\ l.account = 1930 /\ m.account = 3740 /\ n.account = 3740
  BY DEF Debit, Credit
<1> HIDE DEF diff, k, l, m, n, lines
<1>8. On(k, 2440) = gross /\ On(l, 2440) = 0 /\ On(m, 2440) = 0 /\ On(n, 2440) = 0
  BY <1>7, AmountsAre DEF On
<1>9. /\ NetOn(<<k, l>>, 2440) = gross /\ NetOn(<<k, l, m>>, 2440) = gross
      /\ NetOn(<<k, l, n>>, 2440) = gross
  BY <1>6, <1>8, NetOnTwo, NetOnThree, NetOnFour, AmountsAre
<1>10. <<k, l>> \in Seq(Line) /\ <<k, l, m>> \in Seq(Line) /\ <<k, l, n>> \in Seq(Line)
  BY <1>6, ShortSeqs
<1>11. /\ <<k, l>> \o <<m>> = <<k, l, m>> /\ <<k, l>> \o <<n>> = <<k, l, n>>
       /\ <<k, l>> \o << >> = <<k, l>>
  BY <1>6, TwoAndOne, TwoAndNone
<1> DEFINE s == <<k, l>>
           t == <<k, l, m>>
           u == <<k, l, n>>
<1>12. lines = t \/ lines = u \/ lines = s
  <2>1. CASE diff > 0
    <3>1. lines = <<k, l>> \o <<m>>
      BY <1>5, <2>1, Zenon
    <3> QED
      BY <1>11, <3>1, Zenon
  <2>2. CASE ~(diff > 0) /\ diff < 0
    <3>1. lines = <<k, l>> \o <<n>>
      BY <1>5, <2>2, Zenon
    <3> QED
      BY <1>11, <3>1, Zenon
  <2>3. CASE ~(diff > 0) /\ ~(diff < 0)
    <3>1. lines = <<k, l>> \o << >>
      BY <1>5, <2>3, Zenon
    <3> QED
      BY <1>11, <3>1, Zenon
  <2> QED
    BY <2>1, <2>2, <2>3, Zenon
<1>13. /\ s \in Seq(Line) /\ t \in Seq(Line) /\ u \in Seq(Line)
       /\ NetOn(s, 2440) = gross /\ NetOn(t, 2440) = gross /\ NetOn(u, 2440) = gross
  BY <1>9, <1>10
<1> HIDE DEF s, t, u
<1>14. lines \in Seq(Line) /\ NetOn(lines, 2440) = gross
  BY <1>12, <1>13
<1> QED
  BY <1>14 DEF lines

LEMMA NetOnJust ==
  ASSUME NEW k \in Line, NEW l \in Line, NEW a
  PROVE  /\ <<k, l>> \o << >> \in Seq(Line)
         /\ NetOn(<<k, l>> \o << >>, a) = On(k, a) + On(l, a)
<1> DEFINE s == <<k, l>> \o << >>
           t == <<k, l>>
<1>1. s = t
  BY TwoAndNone
<1>2. t \in Seq(Line)
  BY ShortSeqs
<1>3. NetOn(t, a) = On(k, a) + On(l, a)
  BY NetOnTwo
<1> HIDE DEF s, t
<1>4. s \in Seq(Line) /\ NetOn(s, a) = On(k, a) + On(l, a)
  BY <1>1, <1>2, <1>3
<1> QED
  BY <1>4 DEF s

LEMMA NetOnPlusOne ==
  ASSUME NEW k \in Line, NEW l \in Line, NEW m \in Line, NEW a
  PROVE  /\ <<k, l>> \o <<m>> \in Seq(Line)
         /\ NetOn(<<k, l>> \o <<m>>, a) = On(k, a) + On(l, a) + On(m, a)
<1> DEFINE s == <<k, l>> \o <<m>>
           t == <<k, l, m>>
<1>1. s = t
  BY TwoAndOne
<1>2. t \in Seq(Line)
  BY ShortSeqs
<1>3. NetOn(t, a) = On(k, a) + On(l, a) + On(m, a)
  BY NetOnThree
<1> HIDE DEF s, t
<1>4. s \in Seq(Line) /\ NetOn(s, a) = On(k, a) + On(l, a) + On(m, a)
  BY <1>1, <1>2, <1>3
<1> QED
  BY <1>4 DEF s

LEMMA NetOnPlusTwo ==
  ASSUME NEW k \in Line, NEW l \in Line, NEW m \in Line, NEW n \in Line, NEW a
  PROVE  /\ <<k, l>> \o <<m, n>> \in Seq(Line)
         /\ NetOn(<<k, l>> \o <<m, n>>, a) = On(k, a) + On(l, a) + On(m, a) + On(n, a)
<1> DEFINE s == <<k, l>> \o <<m, n>>
           t == <<k, l, m, n>>
<1>1. s = t
  BY TwoAndTwo
<1>2. t \in Seq(Line)
  BY ShortSeqs
<1>3. NetOn(t, a) = On(k, a) + On(l, a) + On(m, a) + On(n, a)
  BY NetOnFour
<1> HIDE DEF s, t
<1>4. s \in Seq(Line) /\ NetOn(s, a) = On(k, a) + On(l, a) + On(m, a) + On(n, a)
  BY <1>1, <1>2, <1>3
<1> QED
  BY <1>4 DEF s

\* The residual of a payment is exact when the amount paid fits its column.
LEMMA ResidualExact ==
  ASSUME NEW gross \in 0 .. MaxAmount, NEW paid \in Nat, NEW sum \in 1 .. MaxAmount, paid + sum <= MaxAmount
  PROVE  Wrap(gross - Wrap(paid + sum)) = gross - (paid + sum)
<1>1. paid + sum \in Amount /\ gross - (paid + sum) \in Amount
  BY AmountsAre DEF Amount
<1> QED
  BY <1>1, WrapId

\* A payment that settles an invoice clears what was left of it on 1510; one
\* that does not clears its own amount.
LEMMA SettlementType ==
  ASSUME NEW currency, NEW gross \in Amount, NEW paid \in Nat, NEW sum \in Amount
  PROVE  LET s == Settlement(currency, gross, paid, sum)
         IN  /\ s.lines \in Seq(Line) /\ s.full \in BOOLEAN
             /\ sum > 0 /\ gross >= 0 /\ paid + sum <= MaxAmount /\ s.take =>
                  /\ s.full => NetOn(s.lines, 1510) = paid - gross
                  /\ ~s.full => NetOn(s.lines, 1510) = -sum
<1> DEFINE diff == Wrap(sum - gross)
           residual == Wrap(gross - Wrap(paid + sum))
           small == Abs(residual) < oresRoundingThreshold
           r == Debit(1930, sum)
           cg == Credit(1510, gross)
           ca == Credit(1510, sum)
           gain == Credit(3960, diff)
           loss == Debit(7960, Wrap(-diff))
           over1 == Debit(1510, Wrap(-residual))
           over2 == Credit(3740, Wrap(-residual))
           under1 == Credit(1510, residual)
           under2 == Debit(3740, residual)
           s == Settlement(currency, gross, paid, sum)
           left == paid - gross
           Fits == gross >= 0 /\ paid + sum <= MaxAmount
           Good == /\ s.lines \in Seq(Line) /\ s.full \in BOOLEAN
                   /\ sum > 0 /\ Fits /\ s.take =>
                        /\ s.full => NetOn(s.lines, 1510) = left
                        /\ ~s.full => NetOn(s.lines, 1510) = -sum
<1> SUFFICES Good
  OBVIOUS
<1>0. gross \in Int /\ sum \in Int /\ MaxAmount \in Nat /\ gross <= MaxAmount /\ sum <= MaxAmount
  BY AmountsAre
<1>1. diff \in Amount /\ residual \in Amount /\ Wrap(-diff) \in Amount /\ Wrap(-residual) \in Amount
  <2>1. sum - gross \in Int /\ paid + sum \in Int
    BY <1>0
  <2>2. diff \in Amount /\ Wrap(paid + sum) \in Amount
    BY <2>1, WrapType
  <2>3. gross - Wrap(paid + sum) \in Int
    <3> DEFINE x == Wrap(paid + sum)
    <3> HIDE DEF x
    <3>1. x \in Int
      BY <2>2, AmountsAre DEF x
    <3> QED
      BY <1>0, <3>1 DEF x
  <2>4. residual \in Amount
    BY <2>3, WrapType
  <2> HIDE DEF diff, residual
  <2>5. -diff \in Int /\ -residual \in Int
    BY <2>2, <2>4, AmountsAre
  <2> QED
    BY <2>2, <2>4, <2>5, WrapType
<1>2. sum > 0 /\ Fits => residual = gross - (paid + sum)
  <2> SUFFICES ASSUME sum > 0, Fits PROVE residual = gross - (paid + sum)
    OBVIOUS
  <2>1. gross \in 0 .. MaxAmount /\ sum \in 1 .. MaxAmount
    BY <1>0
  <2> QED
    BY <2>1, ResidualExact
<1>3. s = IF currency # "SEK"
          THEN [take |-> paid = 0, full |-> TRUE,
                lines |-> <<r, cg>> \o IF diff > 0 THEN <<gain>> ELSE IF diff < 0 THEN <<loss>> ELSE << >>]
          ELSE [take |-> small \/ residual >= 0, full |-> small,
                lines |-> <<r, ca>> \o IF residual = 0 \/ ~small THEN << >>
                                       ELSE IF residual > 0 THEN <<under1, under2>> ELSE <<over1, over2>>]
  BY DEF Settlement
<1>4. small \in BOOLEAN
  OBVIOUS
<1> HIDE DEF diff, residual, small, s, left
<1>5. /\ r \in Line /\ cg \in Line /\ ca \in Line /\ gain \in Line /\ loss \in Line
      /\ over1 \in Line /\ over2 \in Line /\ under1 \in Line /\ under2 \in Line
  BY <1>1, DebitType
<1>6. residual \in Int /\ left \in Int
  BY <1>0, <1>1, AmountsAre DEF left
<1>7. /\ On(r, 1510) = 0 /\ On(cg, 1510) = -gross /\ On(ca, 1510) = -sum
      /\ On(gain, 1510) = 0 /\ On(loss, 1510) = 0 /\ On(over2, 1510) = 0
      /\ On(under1, 1510) = -residual /\ On(under2, 1510) = 0
      /\ On(over1, 1510) = Wrap(-residual)
  <2>1. Wrap(-residual) \in Int
    BY <1>1, AmountsAre
  <2> QED
    BY <1>0, <1>6, <2>1 DEF On, Debit, Credit
<1>8. sum > 0 /\ Fits => residual = gross - (paid + sum) /\ Wrap(-residual) = -residual
  <2> SUFFICES ASSUME sum > 0, Fits PROVE Wrap(-residual) = -residual
    BY <1>2
  <2>1. -residual \in Amount
    BY <1>0, <1>2 DEF Amount
  <2> QED
    BY <2>1, WrapId
<1> HIDE DEF r, cg, ca, gain, loss, over1, over2, under1, under2
<1>9. CASE currency # "SEK"
  <2>1. s.take = (paid = 0) /\ s.full = TRUE
    BY <1>3, <1>9
  <2>2. s.lines = <<r, cg>> \o IF diff > 0 THEN <<gain>> ELSE IF diff < 0 THEN <<loss>> ELSE << >>
    BY <1>3, <1>9
  <2>3. s.lines \in Seq(Line) /\ NetOn(s.lines, 1510) = -gross
    <3>1. CASE diff > 0
      <4>1. s.lines = <<r, cg>> \o <<gain>>
        BY <2>2, <3>1, Zenon
      <4>2. <<r, cg>> \o <<gain>> \in Seq(Line) /\ NetOn(<<r, cg>> \o <<gain>>, 1510) = -gross
        BY <1>0, <1>5, <1>7, NetOnJust, NetOnPlusOne, NetOnPlusTwo
      <4> QED
        BY <4>1, <4>2
    <3>2. CASE ~(diff > 0) /\ diff < 0
      <4>1. s.lines = <<r, cg>> \o <<loss>>
        BY <2>2, <3>2, Zenon
      <4>2. <<r, cg>> \o <<loss>> \in Seq(Line) /\ NetOn(<<r, cg>> \o <<loss>>, 1510) = -gross
        BY <1>0, <1>5, <1>7, NetOnJust, NetOnPlusOne, NetOnPlusTwo
      <4> QED
        BY <4>1, <4>2
    <3>3. CASE ~(diff > 0) /\ ~(diff < 0)
      <4>1. s.lines = <<r, cg>> \o << >>
        BY <2>2, <3>3, Zenon
      <4>2. <<r, cg>> \o << >> \in Seq(Line) /\ NetOn(<<r, cg>> \o << >>, 1510) = -gross
        BY <1>0, <1>5, <1>7, NetOnJust, NetOnPlusOne, NetOnPlusTwo
      <4> QED
        BY <4>1, <4>2
    <3> QED
      BY <3>1, <3>2, <3>3, Zenon
  <2>4. paid = 0 => left = -gross
    BY <1>0 DEF left
  <2>5. NetOn(s.lines, 1510) = left \/ paid # 0
    BY <2>3, <2>4
  <2>6. s.full \in BOOLEAN /\ s.full /\ (s.take => paid = 0)
    BY <2>1, Zenon
  <2>7. s.take => NetOn(s.lines, 1510) = left
    BY <2>5, <2>6
  <2> QED
    BY <2>3, <2>6, <2>7
<1>10. CASE currency = "SEK"
  <2>1. s.take = (small \/ residual >= 0) /\ s.full = small
    BY <1>3, <1>4, <1>10
  <2>2. s.lines = <<r, ca>> \o IF residual = 0 \/ ~small THEN << >>
                               ELSE IF residual > 0 THEN <<under1, under2>> ELSE <<over1, over2>>
    BY <1>3, <1>10
  <2>3. CASE residual = 0 \/ ~small
    <3>1. s.lines = <<r, ca>> \o << >>
      BY <2>2, <2>3, Zenon
    <3>2. <<r, ca>> \o << >> \in Seq(Line) /\ NetOn(<<r, ca>> \o << >>, 1510) = -sum
      BY <1>0, <1>5, <1>7, NetOnJust, NetOnPlusOne, NetOnPlusTwo
    <3>3. s.lines \in Seq(Line) /\ NetOn(s.lines, 1510) = -sum
      BY <3>1, <3>2
    <3>4. sum > 0 /\ Fits /\ residual = 0 => -sum = left
      BY <1>0, <1>8 DEF left
    <3> QED
      BY <1>4, <2>1, <2>3, <3>3, <3>4
  <2>4. CASE ~(residual = 0 \/ ~small) /\ residual > 0
    <3>1. s.lines = <<r, ca>> \o <<under1, under2>>
      BY <2>2, <2>4, Zenon
    <3>2. /\ <<r, ca>> \o <<under1, under2>> \in Seq(Line)
          /\ NetOn(<<r, ca>> \o <<under1, under2>>, 1510) = -sum - residual
      BY <1>0, <1>5, <1>6, <1>7, NetOnJust, NetOnPlusOne, NetOnPlusTwo
    <3>3. s.lines \in Seq(Line) /\ NetOn(s.lines, 1510) = -sum - residual
      BY <3>1, <3>2
    <3>4. sum > 0 /\ Fits => -sum - residual = left
      BY <1>0, <1>8 DEF left
    <3> QED
      BY <1>4, <2>1, <2>4, <3>3, <3>4
  <2>5. CASE ~(residual = 0 \/ ~small) /\ ~(residual > 0)
    <3>1. s.lines = <<r, ca>> \o <<over1, over2>>
      BY <2>2, <2>5, Zenon
    <3>2. Wrap(-residual) \in Int
      BY <1>1, AmountsAre
    <3>3. /\ <<r, ca>> \o <<over1, over2>> \in Seq(Line)
          /\ NetOn(<<r, ca>> \o <<over1, over2>>, 1510) = -sum + Wrap(-residual)
      BY <1>0, <1>5, <3>2, <1>7, NetOnJust, NetOnPlusOne, NetOnPlusTwo
    <3>4. s.lines \in Seq(Line) /\ NetOn(s.lines, 1510) = -sum + Wrap(-residual)
      BY <3>1, <3>3
    <3>5. sum > 0 /\ Fits => -sum + Wrap(-residual) = left
      BY <1>0, <1>6, <1>8 DEF left
    <3> QED
      BY <1>4, <2>1, <2>5, <3>4, <3>5
  <2> QED
    BY <2>3, <2>4, <2>5, Zenon
<1> QED
  BY <1>9, <1>10, Zenon

-----------------------------------------------------------------------------
(* The bokslut voucher                                                     *)

Rank(S, a) == Cardinality({b \in S : b <= a})

\* The ranks of the elements of a set number them.
LEMMA Ranks ==
  ASSUME NEW S \in SUBSET Nat, IsFiniteSet(S)
  PROVE  /\ Cardinality(S) \in Nat
         /\ \A a \in S : Rank(S, a) \in 1 .. Cardinality(S)
         /\ \A a, c \in S : Rank(S, a) = Rank(S, c) => a = c
         /\ \A i \in 1 .. Cardinality(S) : \E a \in S : Rank(S, a) = i
<1> DEFINE n == Cardinality(S)
           B(a) == {b \in S : b <= a}
           r == [a \in S |-> Rank(S, a)]
<1>1. n \in Nat
  BY FS_CardinalityType
<1>2. ASSUME NEW a \in S PROVE IsFiniteSet(B(a)) /\ Cardinality(B(a)) \in 1 .. n
  <2>1. B(a) \in SUBSET S /\ a \in B(a)
    BY DEF B
  <2> HIDE DEF B
  <2>2. IsFiniteSet(B(a)) /\ Cardinality(B(a)) <= n
    BY <2>1, FS_Subset
  <2>3. Cardinality(B(a)) \in Nat /\ Cardinality(B(a)) # 0
    BY <2>1, <2>2, FS_CardinalityType, FS_EmptySet
  <2> QED
    BY <1>1, <2>2, <2>3
<1>3. ASSUME NEW a \in S, NEW c \in S, a < c PROVE Cardinality(B(a)) # Cardinality(B(c))
  <2>1. B(a) \in SUBSET B(c) /\ c \in B(c) /\ c \notin B(a)
    <3>1. a \in Nat /\ c \in Nat /\ \A b \in S : b \in Nat
      OBVIOUS
    <3>2. \A b \in S : b <= a => b <= c
      BY <1>3, <3>1
    <3>3. c <= c /\ ~(c <= a)
      BY <1>3, <3>1
    <3> QED
      BY <3>2, <3>3
  <2>2. IsFiniteSet(B(c))
    BY <1>2
  <2> HIDE DEF B
  <2> QED
    BY <2>1, <2>2, FS_Subset
<1>4. \A a \in S : Rank(S, a) = Cardinality(B(a))
  BY DEF Rank
<1> HIDE DEF B, n
<1>5. \A a \in S : Rank(S, a) \in 1 .. n
  BY <1>2, <1>4
<1>6. ASSUME NEW a \in S, NEW c \in S, Rank(S, a) = Rank(S, c) PROVE a = c
  <2>1. a \in Nat /\ c \in Nat
    OBVIOUS
  <2>2. ~(a < c) /\ ~(c < a)
    BY <1>3, <1>4, <1>6
  <2> QED
    BY <2>1, <2>2
<1>7. r \in Injection(S, 1 .. n)
  <2>1. r \in [S -> 1 .. n]
    BY <1>5
  <2>2. IsInjective(r)
    BY <1>6 DEF IsInjective
  <2> QED
    BY <2>1, <2>2 DEF Injection
<1>8. IsFiniteSet(1 .. n) /\ Cardinality(1 .. n) = n
  BY <1>1, FS_Interval
<1>9. r \in Surjection(S, 1 .. n)
  <2> HIDE DEF r
  <2>1. Cardinality(S) = Cardinality(1 .. n)
    BY <1>8 DEF n
  <2> QED
    BY <1>7, <1>8, <2>1, FS_Injection
<1>10. \A i \in 1 .. n : \E a \in S : Rank(S, a) = i
  BY <1>9 DEF Surjection
<1> QED
  BY <1>1, <1>5, <1>6, <1>10 DEF n

\* The bokslut clears every result account, if it is a voucher at all.
LEMMA CloseLinesType ==
  ASSUME NEW tb, IsFiniteSet(DOMAIN tb), DOMAIN tb \subseteq Nat, \A a \in DOMAIN tb : tb[a] \in Amount
  PROVE  /\ CloseLines(tb) \in Seq(Line)
         /\ Validate(CloseLines(tb)) =>
              \A a : IsResult(a) => NetOn(CloseLines(tb), a) = -BalanceOf(tb, a)
         /\ \A i \in 1 .. Len(CloseLines(tb)) :
              LET a == CloseLines(tb)[i].account IN a = 2099 \/ IsResult(a)
<1> DEFINE open == {a \in DOMAIN tb : IsResult(a) /\ tb[a] # 0}
           result == ResultOf(tb)
           zero(a) == IF tb[a] > 0 THEN Credit(a, tb[a]) ELSE Debit(a, Wrap(-tb[a]))
           account(i) == CHOOSE a \in open : Cardinality({b \in open : b <= a}) = i
           f == [i \in 1 .. Cardinality(open) |-> zero(account(i))]
           last == IF result > 0 THEN Credit(2099, result) ELSE Debit(2099, Wrap(-result))
           n == Cardinality(open)
           c == f \o <<last>>
<1>1. CloseLines(tb) = c
  BY DEF CloseLines
<1>2. IsFiniteSet(open) /\ open \in SUBSET Nat
  BY FS_Subset
<1>3. result \in Amount /\ Wrap(-result) \in Amount
  <2> DEFINE D == {x \in DOMAIN tb : IsResult(x)}
             g == [a \in D |-> tb[a]]
  <2>1. IsFiniteSet(D)
    BY FS_Subset
  <2>2. g \in [D -> Int]
    BY AmountsAre
  <2>3. result = Wrap(-SumFunction(g))
    BY DEF ResultOf, SumOn
  <2> HIDE DEF D, g
  <2>4. SumFunction(g) \in Int
    BY <2>1, <2>2, SumFunctionType
  <2>5. -SumFunction(g) \in Int
    BY <2>4
  <2>6. result \in Amount
    BY <2>3, <2>5, WrapType
  <2> HIDE DEF result
  <2>7. -result \in Int
    BY <2>6, AmountsAre
  <2> QED
    BY <2>6, <2>7, WrapType
<1>4. last \in Line /\ last.account = 2099
  <2> HIDE DEF result
  <2>1. /\ Credit(2099, result) \in Line /\ Credit(2099, result).account = 2099
        /\ Debit(2099, Wrap(-result)) \in Line /\ Debit(2099, Wrap(-result)).account = 2099
    BY <1>3, DebitType
  <2> QED
    BY <2>1
<1>5. /\ n \in Nat
      /\ \A a \in open : Rank(open, a) \in 1 .. n
      /\ \A a, b \in open : Rank(open, a) = Rank(open, b) => a = b
      /\ \A i \in 1 .. n : \E a \in open : Rank(open, a) = i
  <2> HIDE DEF open
  <2> QED
    BY <1>2, Ranks
<1>6. \A i \in 1 .. n : account(i) \in open /\ Rank(open, account(i)) = i
  <2>1. ASSUME NEW i \in 1 .. n PROVE account(i) \in open /\ Rank(open, account(i)) = i
    <3>1. \E a \in open : Cardinality({b \in open : b <= a}) = i
      BY <1>5 DEF Rank
    <3> HIDE DEF open, n
    <3> QED
      BY <3>1 DEF Rank
  <2> HIDE DEF account, open, n
  <2> QED
    BY <2>1
<1>7. ASSUME NEW a \in open
      PROVE  /\ a \in Nat /\ tb[a] \in Amount /\ Wrap(-tb[a]) \in Amount
             /\ zero(a) \in Line /\ zero(a).account = a
  <2>1. a \in Nat /\ tb[a] \in Amount
    BY <1>2
  <2>2. -tb[a] \in Int
    BY <2>1, AmountsAre
  <2>3. Wrap(-tb[a]) \in Amount
    BY <2>2, WrapType
  <2>4. /\ Credit(a, tb[a]) \in Line /\ Credit(a, tb[a]).account = a
        /\ Debit(a, Wrap(-tb[a])) \in Line /\ Debit(a, Wrap(-tb[a])).account = a
    BY <2>1, <2>3, DebitType
  <2> QED
    BY <2>1, <2>3, <2>4
<1>8. ASSUME NEW a \in open, WellFormed(zero(a))
      PROVE  zero(a).debit - zero(a).credit = -tb[a]
  <2>1. tb[a] \in Int /\ -MaxAmount - 1 <= tb[a] /\ tb[a] <= MaxAmount /\ MaxAmount \in Nat
    BY <1>7, AmountsAre
  <2>2. CASE tb[a] > 0
    BY <2>1, <2>2 DEF Credit
  <2>3. CASE ~(tb[a] > 0)
    <3>1. zero(a).debit = Wrap(-tb[a]) /\ zero(a).credit = 0
      BY <2>3 DEF Debit
    <3>2. Wrap(-tb[a]) >= 0
      BY <1>8, <3>1 DEF WellFormed
    <3>3. tb[a] # -MaxAmount - 1
      <4> SUFFICES ASSUME tb[a] = -MaxAmount - 1 PROVE FALSE
        OBVIOUS
      <4>1. tb[a] + 1 * (2 * (MaxAmount + 1)) = -tb[a]
        BY <2>1
      <4>2. Wrap(tb[a] + 1 * (2 * (MaxAmount + 1))) = tb[a]
        BY <1>7, WrapPeriod
      <4> QED
        BY <2>1, <3>2, <4>1, <4>2
    <3>4. -tb[a] \in Amount
      BY <2>1, <3>3 DEF Amount
    <3>5. Wrap(-tb[a]) = -tb[a]
      BY <3>4, WrapId
    <3> QED
      BY <2>1, <3>1, <3>5
  <2> QED
    BY <2>2, <2>3
<1> HIDE DEF zero, account, open, last, n
<1>9. f \in Seq(Line) /\ Len(f) = n /\ \A i \in 1 .. n : f[i] = zero(account(i))
  <2>1. \A i \in 1 .. n : zero(account(i)) \in Line
    BY <1>6, <1>7
  <2>2. f = [i \in 1 .. n |-> zero(account(i))]
    BY DEF n
  <2>3. f \in [1 .. n -> Line] /\ DOMAIN f = 1 .. n /\ \A i \in 1 .. n : f[i] = zero(account(i))
    BY <2>1, <2>2
  <2> HIDE DEF f
  <2>4. f \in Seq(Line)
    BY <1>5, <2>3, SeqDef
  <2>5. Len(f) \in Nat /\ 1 .. Len(f) = 1 .. n
    BY <2>3, <2>4, LenProperties
  <2>6. Len(f) = n
    BY <1>5, <2>5
  <2> QED
    BY <2>3, <2>4, <2>6
<1> HIDE DEF f
<1>10. /\ c \in Seq(Line) /\ Len(c) = n + 1 /\ c[n + 1] = last
       /\ \A i \in 1 .. n : c[i] = zero(account(i))
  <2>1. <<last>> \in Seq(Line) /\ Len(<<last>>) = 1 /\ <<last>>[1] = last
    BY <1>4
  <2> DEFINE l == <<last>>
  <2> HIDE DEF l
  <2>2. l \in Seq(Line) /\ Len(l) = 1 /\ l[1] = last
    BY <2>1 DEF l
  <2>3. /\ f \o l \in Seq(Line) /\ Len(f \o l) = n + 1
        /\ \A i \in 1 .. n + 1 : (f \o l)[i] = IF i <= n THEN f[i] ELSE l[i - n]
    <3>1. /\ f \o l \in Seq(Line) /\ Len(f \o l) = Len(f) + Len(l)
          /\ \A i \in 1 .. Len(f) + Len(l) : (f \o l)[i] = IF i <= Len(f) THEN f[i] ELSE l[i - Len(f)]
      BY <1>9, <2>2, ConcatProperties, Zenon
    <3>2. Len(f) = n /\ Len(l) = 1
      BY <1>9, <2>2
    <3> QED
      BY <3>1, <3>2
  <2>4. (f \o l)[n + 1] = last /\ \A i \in 1 .. n : (f \o l)[i] = zero(account(i))
    BY <1>5, <1>9, <2>2, <2>3
  <2> QED
    BY <2>3, <2>4 DEF l
<1> HIDE DEF c
<1>11. ASSUME Validate(c), NEW a, IsResult(a) PROVE NetOn(c, a) = -BalanceOf(tb, a)
  <2>0. a # 2099
    BY <1>11 DEF IsResult, Classify
  <2>1. CASE a \in open
    <3> DEFINE k == Rank(open, a)
    <3>1. k \in 1 .. n
      BY <1>5, <2>1
    <3>2. account(k) = a
      BY <1>5, <1>6, <2>1, <3>1
    <3> HIDE DEF k
    <3>3. c[k] = zero(a) /\ c[k].account = a /\ k \in 1 .. Len(c)
      BY <1>5, <1>7, <1>10, <2>1, <3>1, <3>2
    <3>4. ASSUME NEW i \in 1 .. Len(c), c[i].account = a PROVE i = k
      <4>1. i \in 1 .. n
        BY <1>4, <1>5, <1>10, <2>0, <3>4
      <4>2. c[i].account = account(i)
        BY <1>6, <1>7, <1>10, <4>1
      <4> QED
        BY <1>6, <3>1, <3>2, <3>4, <4>1, <4>2
    <3>5. NetOn(c, a) = c[k].debit - c[k].credit
      BY <1>10, <3>3, <3>4, NetOnOne
    <3>6. WellFormed(c[k])
      BY <1>11, <3>3 DEF Validate
    <3>7. NetOn(c, a) = -tb[a]
      BY <1>8, <2>1, <3>3, <3>5, <3>6
    <3> QED
      BY <2>1, <3>7 DEF BalanceOf, open
  <2>2. CASE a \notin open
    <3>1. ASSUME NEW i \in 1 .. Len(c) PROVE c[i].account # a
      <4>1. CASE i \in 1 .. n
        <5>1. c[i].account = account(i) /\ account(i) \in open
          BY <1>6, <1>7, <1>10, <4>1
        <5> QED
          BY <2>2, <5>1
      <4>2. CASE i = n + 1
        BY <1>4, <1>10, <2>0, <4>2
      <4> QED
        BY <1>5, <1>10, <4>1, <4>2
    <3>2. NetOn(c, a) = 0
      BY <1>10, <3>1, NetOnNone
    <3>3. BalanceOf(tb, a) = 0
      BY <1>11, <2>2 DEF BalanceOf, open
    <3> DEFINE z == BalanceOf(tb, a)
    <3> HIDE DEF z
    <3>4. z \in Int /\ z = 0
      BY <3>3 DEF z
    <3>5. z \in Int /\ z <= 0 /\ z >= 0
      BY <3>4
    <3>6. -z = 0
      BY <3>5
    <3> QED
      BY <3>2, <3>6 DEF z
  <2> QED
    BY <2>1, <2>2
<1>12. \A i \in 1 .. Len(c) : c[i].account = 2099 \/ IsResult(c[i].account)
  <2> SUFFICES ASSUME NEW i \in 1 .. Len(c) PROVE c[i].account = 2099 \/ IsResult(c[i].account)
    OBVIOUS
  <2>1. CASE i \in 1 .. n
    <3>1. c[i].account = account(i) /\ account(i) \in open
      BY <1>6, <1>7, <1>10, <2>1
    <3> QED
      BY <3>1 DEF open
  <2>2. CASE i = n + 1
    BY <1>4, <1>10, <2>2
  <2> QED
    BY <1>5, <1>10, <2>1, <2>2
<1> QED
  BY <1>1, <1>10, <1>11, <1>12

-----------------------------------------------------------------------------
(* Trial balances                                                          *)

LEMMA TotalOnType ==
  ASSUME NEW vs, NEW K, IsFiniteSet(K), \A k \in K : vs[k].lines \in Seq(Line), NEW a
  PROVE  TotalOn(vs, K, a) \in Int
<1> DEFINE f == [k \in K |-> NetOn(vs[k].lines, a)]
<1>1. f \in [K -> Int]
  BY NetOnType
<1>2. TotalOn(vs, K, a) = SumFunction(f)
  BY DEF TotalOn
<1> HIDE DEF f
<1> QED
  BY <1>1, <1>2, SumFunctionType

LEMMA AccountsInType ==
  ASSUME NEW vs, NEW K, IsFiniteSet(K), \A k \in K : vs[k].lines \in Seq(Line)
  PROVE  IsFiniteSet(AccountsIn(vs, K)) /\ AccountsIn(vs, K) \subseteq Nat
<1> DEFINE A(k) == {vs[k].lines[i].account : i \in DOMAIN vs[k].lines}
           F == {A(k) : k \in K}
           g == [k \in K |-> A(k)]
<1>1. ASSUME NEW k \in K PROVE IsFiniteSet(A(k)) /\ A(k) \subseteq Nat
  <2> DEFINE D == DOMAIN vs[k].lines
             h == [i \in D |-> vs[k].lines[i].account]
  <2>1. IsFiniteSet(D) /\ \A i \in D : vs[k].lines[i] \in Line
    BY SeqDomain
  <2>2. A(k) \subseteq Nat
    BY <2>1, LineType
  <2>3. h \in Surjection(D, A(k))
    BY DEF Surjection
  <2> HIDE DEF h, D, A
  <2> QED
    BY <2>1, <2>2, <2>3, FS_Surjection
<1>2. g \in Surjection(K, F)
  <2> HIDE DEF A
  <2> QED
    BY DEF Surjection
<1>3. IsFiniteSet(F)
  <2> HIDE DEF g, F
  <2> QED
    BY <1>2, FS_Surjection
<1>4. \A T \in F : IsFiniteSet(T) /\ T \subseteq Nat
  <2> HIDE DEF A
  <2> QED
    BY <1>1
<1>5. AccountsIn(vs, K) = UNION F
  BY DEF AccountsIn
<1> HIDE DEF F
<1>6. IsFiniteSet(UNION F)
  BY <1>3, <1>4, FS_UNION
<1> QED
  BY <1>4, <1>5, <1>6

\* The balance of any account, with lines or without, is the total of its lines.
LEMMA BalanceIsTotal ==
  ASSUME NEW vs, NEW K, IsFiniteSet(K), \A k \in K : vs[k].lines \in Seq(Line), NEW a
  PROVE  BalanceOf(BalancesOf(vs, K), a) = TotalOn(vs, K, a)
<1> DEFINE tb == BalancesOf(vs, K)
<1>1. DOMAIN tb = AccountsIn(vs, K) /\ \A b \in AccountsIn(vs, K) : tb[b] = TotalOn(vs, K, b)
  BY DEF BalancesOf
<1> HIDE DEF tb
<1>2. CASE a \in AccountsIn(vs, K)
  BY <1>1, <1>2 DEF BalanceOf, tb
<1>3. CASE a \notin AccountsIn(vs, K)
  <2> DEFINE f == [k \in K |-> NetOn(vs[k].lines, a)]
  <2>1. ASSUME NEW k \in K PROVE NetOn(vs[k].lines, a) = 0
    <3>1. vs[k].lines \in Seq(Line) /\ DOMAIN vs[k].lines = 1 .. Len(vs[k].lines)
      BY SeqDomain
    <3>2. \A i \in 1 .. Len(vs[k].lines) : vs[k].lines[i].account # a
      BY <1>3, <3>1 DEF AccountsIn
    <3> QED
      BY <3>1, <3>2, NetOnNone
  <2>2. DOMAIN f = K /\ \A k \in K : f[k] = 0
    BY <2>1
  <2>3. TotalOn(vs, K, a) = SumFunction(f)
    BY DEF TotalOn
  <2> HIDE DEF f
  <2>4. TotalOn(vs, K, a) = 0
    BY <2>2, <2>3, SumZero DEF SumFunction
  <2>5. BalanceOf(tb, a) = 0
    BY <1>1, <1>3 DEF BalanceOf
  <2> QED
    BY <2>4, <2>5 DEF tb
<1> QED
  BY <1>2, <1>3

\* What one more voucher adds.
LEMMA TotalOfAppend ==
  ASSUME NEW vs, NEW ws, NEW K, IsFiniteSet(K), \A k \in K : ws[k] = vs[k] /\ vs[k].lines \in Seq(Line),
         NEW n, n \notin K, ws[n].lines \in Seq(Line), NEW a
  PROVE  /\ TotalOn(ws, K, a) = TotalOn(vs, K, a)
         /\ TotalOn(ws, K \cup {n}, a) = TotalOn(vs, K, a) + NetOn(ws[n].lines, a)
<1> DEFINE f == [k \in K |-> NetOn(vs[k].lines, a)]
           g == [k \in K |-> NetOn(ws[k].lines, a)]
           h == [k \in K \cup {n} |-> NetOn(ws[k].lines, a)]
<1>1. /\ DOMAIN f = K /\ DOMAIN g = K /\ DOMAIN h = K \cup {n} /\ h[n] = NetOn(ws[n].lines, a)
      /\ \A k \in K : f[k] \in Int /\ g[k] = f[k] /\ h[k] = f[k]
      /\ \A k \in K \cup {n} : h[k] \in Int
  BY NetOnType
<1>2. /\ TotalOn(vs, K, a) = SumFunction(f) /\ TotalOn(ws, K, a) = SumFunction(g)
      /\ TotalOn(ws, K \cup {n}, a) = SumFunction(h)
  BY DEF TotalOn
<1> HIDE DEF f, g, h
<1>3. SumFunctionOnSet(g, K) = SumFunctionOnSet(f, K) /\ SumFunctionOnSet(h, K) = SumFunctionOnSet(f, K)
  BY <1>1, SumSame
<1>4. SumFunctionOnSet(h, K \cup {n}) = SumFunctionOnSet(h, K) + h[n]
  BY <1>1, SumWith
<1>5. SumFunction(g) = SumFunction(f) /\ SumFunction(h) = SumFunction(f) + h[n]
  BY <1>1, <1>3, <1>4 DEF SumFunction
<1> QED
  BY <1>1, <1>2, <1>5

LEMMA TotalStays ==
  ASSUME NEW vs, NEW ws, NEW K, IsFiniteSet(K), \A k \in K : ws[k] = vs[k] /\ vs[k].lines \in Seq(Line), NEW a
  PROVE  TotalOn(ws, K, a) = TotalOn(vs, K, a)
<1> DEFINE f == [k \in K |-> NetOn(vs[k].lines, a)]
           g == [k \in K |-> NetOn(ws[k].lines, a)]
<1>1. f = g
  OBVIOUS
<1> QED
  BY <1>1 DEF TotalOn

LEMMA TotalWith ==
  ASSUME NEW vs, NEW ws, NEW K, IsFiniteSet(K), \A k \in K : ws[k] = vs[k] /\ vs[k].lines \in Seq(Line),
         NEW n, n \notin K, NEW s \in Seq(Line), ws[n].lines = s, NEW a
  PROVE  TotalOn(ws, K \cup {n}, a) = TotalOn(vs, K, a) + NetOn(s, a)
<1> DEFINE f == [k \in K |-> NetOn(vs[k].lines, a)]
           h == [k \in K \cup {n} |-> NetOn(ws[k].lines, a)]
<1>1. /\ DOMAIN f = K /\ DOMAIN h = K \cup {n} /\ h[n] = NetOn(s, a)
      /\ \A k \in K : f[k] \in Int /\ h[k] = f[k]
      /\ \A k \in K \cup {n} : h[k] \in Int
  BY NetOnType
<1>2. TotalOn(vs, K, a) = SumFunction(f) /\ TotalOn(ws, K \cup {n}, a) = SumFunction(h)
  BY DEF TotalOn
<1> HIDE DEF f, h
<1>3. SumFunctionOnSet(h, K) = SumFunctionOnSet(f, K)
  BY <1>1, SumSame
<1>4. SumFunctionOnSet(h, K \cup {n}) = SumFunctionOnSet(h, K) + h[n]
  BY <1>1, SumWith
<1> QED
  BY <1>1, <1>2, <1>3, <1>4 DEF SumFunction

LEMMA ReverseType ==
  ASSUME NEW lines \in Seq(Line)
  PROVE  ReverseLines(lines) \in Seq(Line)
<1> DEFINE n == Len(lines)
           r == ReverseLines(lines)
<1>1. n \in Nat /\ \A i \in 1 .. n : lines[i] \in Line
  BY SeqDomain
<1>2. \A i \in 1 .. n : lines[i].account \in Nat /\ lines[i].debit \in Amount /\ lines[i].credit \in Amount
  BY <1>1, LineType
<1>3. r \in [1 .. n -> Line]
  BY <1>2 DEF ReverseLines, Line
<1> HIDE DEF r, n
<1>4. r \in Seq(Line)
  BY <1>1, <1>3, SeqDef
<1> QED
  BY <1>4 DEF r

-----------------------------------------------------------------------------
(* Every voucher is sound                                                  *)

AllValid == \A k \in DOMAIN book : Validate(book[k].lines)

SaysKnown == \A i \in Inv : sale[i].status # "none" => sale[i].says \in Drafts

Issued == {"finalized", "paid", "credited"}

\* What a handler has read is there, and the sums of its trial balance fitted;
\* a payment is of an issued invoice, of which no less has been paid by now.
TaskSound(t) ==
  /\ t.step \in {"issue", "credit"} => sale[t.inv].status # "none"
  /\ t.step = "settle" =>
       /\ sale[t.inv].status \in Issued
       /\ t.amount > 0 /\ t.paid <= sale[t.inv].paid
       /\ SettlementOf(t.inv, t.paid, t.amount).take
  /\ t.step = "close" => t.seen <= Len(book) /\ SumsFit(TrialBalanceOfYear(t.year, t.seen))

TasksSound == \A w \in Worker : TaskSound(task[w])

\* What a step may rely on: types, vouchers that passed Validate, invoices
\* that say what was entered, and handlers that have read something.
SoundInv == TypeOK /\ AllValid /\ SaysKnown /\ TasksSound

LEMMA DraftsOK ==
  ASSUME NEW d \in Drafts
  PROVE  InvoiceOK(d)
  BY BooksAssumption DEF InvoiceOK

LEMMA PostKeeps ==
  ASSUME TypeOK, AllValid, NEW series \in {"F", "B", "L", "LB", "R", "O"} \cup ManualSeries, NEW y \in Years,
         NEW lines \in Seq(Line), NEW applied \in BOOLEAN, postVerification(series, y, lines, applied)
  PROVE  book' \in Seq(Voucher) /\ AllValid'
<1> DEFINE v == [series |-> series, year |-> y, lines |-> lines, applied |-> applied]
           n == Len(book) + 1
<1>1. v \in Voucher /\ v.lines = lines
  BY DEF Voucher
<1>2. book' = Append(book, v) /\ Validate(lines)
  BY DEF postVerification
<1>3. book \in Seq(Voucher)
  BY DEF TypeOK
<1> HIDE DEF v
<1>4. /\ book' \in Seq(Voucher) /\ DOMAIN book' = DOMAIN book \cup {n}
      /\ book'[n] = v /\ \A k \in DOMAIN book : book'[k] = book[k]
  BY <1>1, <1>2, <1>3, AppendProperties, SeqDomain
<1> QED
  BY <1>1, <1>2, <1>4 DEF AllValid

LEMMA BookType ==
  ASSUME TypeOK
  PROVE  /\ book \in Seq(Voucher) /\ IsFiniteSet(DOMAIN book)
         /\ DOMAIN book = 1 .. Len(book) /\ Len(book) \in Nat
         /\ \A k \in DOMAIN book : book[k].lines \in Seq(Line)
<1>1. book \in Seq(Voucher)
  BY DEF TypeOK
<1>2. IsFiniteSet(DOMAIN book) /\ \A k \in DOMAIN book : book[k] \in Voucher
  BY <1>1, SeqDomain
<1>3. DOMAIN book = 1 .. Len(book) /\ Len(book) \in Nat
  BY <1>1, SeqDomain
<1> QED
  BY <1>1, <1>2, <1>3 DEF Voucher

\* The vouchers in the trial balance of year y after the first n.
OfYear(y, n) == {k \in 1 .. n : book[k].year = y /\ book[k].series # "O"}

LEMMA YearBalance ==
  ASSUME TypeOK, NEW y, NEW n \in Nat, n <= Len(book)
  PROVE  LET tb == TrialBalanceOfYear(y, n)
             K == OfYear(y, n)
         IN  /\ tb = BalancesOf(book, K) /\ IsFiniteSet(K)
             /\ \A k \in K : k \in DOMAIN book /\ book[k].lines \in Seq(Line)
             /\ IsFiniteSet(DOMAIN tb) /\ DOMAIN tb \subseteq Nat
<1> DEFINE K == OfYear(y, n)
<1>1. TrialBalanceOfYear(y, n) = BalancesOf(book, K)
  BY DEF TrialBalanceOfYear, OfYear
<1>2. K \subseteq DOMAIN book
  BY BookType DEF OfYear
<1>3. IsFiniteSet(K) /\ \A k \in K : k \in DOMAIN book /\ book[k].lines \in Seq(Line)
  BY <1>2, BookType, FS_Subset
<1>4. DOMAIN BalancesOf(book, K) = AccountsIn(book, K)
  BY DEF BalancesOf
<1> HIDE DEF K
<1>5. IsFiniteSet(AccountsIn(book, K)) /\ AccountsIn(book, K) \subseteq Nat
  BY <1>3, AccountsInType
<1> QED
  BY <1>1, <1>3, <1>4, <1>5 DEF K

LEMMA BillNet ==
  ASSUME TypeOK, NEW b \in Bill
  PROVE  bill[b].net \in Amount
<1>1. bill[b].net \in 0 .. MaxAmount
  BY DEF TypeOK, BillRow
<1> QED
  BY <1>1, AmountsAre DEF Amount

\* What a voucher of these says is what was entered.
LEMMA SaleLines ==
  ASSUME SaysKnown, NEW i \in Inv, sale[i].status # "none"
  PROVE  /\ sale[i].says \in Drafts /\ GrossSEK(sale[i].says) \in Amount
         /\ VerificationLines(sale[i].says) \in Seq(Line)
<1>1. sale[i].says \in Drafts
  BY DEF SaysKnown
<1>2. InvoiceOK(sale[i].says)
  BY <1>1, DraftsOK
<1> QED
  BY <1>1, <1>2, GrossType, VerificationLinesSeq DEF GrossSEK

\* What the handlers of each kind have read.
LEMMA TaskType ==
  ASSUME TypeOK, NEW w \in Worker
  PROVE  /\ task[w] \in Task /\ task[w].step \in {"idle", "finalize", "pay", "issue", "credit", "settle", "close"}
         /\ task[w].step = "idle" => task[w] = Idle
         /\ task[w].step \in {"finalize", "pay"} => task[w].bill \in Bill /\ task[w].lines \in Seq(Line)
         /\ task[w].step \in {"issue", "credit", "settle"} => task[w].inv \in Inv
         /\ task[w].step = "settle" => task[w].amount \in Payments /\ task[w].paid \in 0 .. MaxAmount
         /\ task[w].step = "close" => task[w].year \in Years /\ task[w].seen \in Nat
<1>1. PICK t \in Task : t = task[w]
  BY DEF TypeOK
<1>2. CASE t = Idle
  BY <1>1, <1>2 DEF Idle
<1>3. CASE t \in [step : {"finalize", "pay"}, bill : Bill, lines : Seq(Line)]
  BY <1>1, <1>3
<1>4. CASE t \in [step : {"issue", "credit"}, inv : Inv]
  BY <1>1, <1>4
<1>5. CASE t \in [step : {"settle"}, inv : Inv, amount : Payments, paid : 0 .. MaxAmount]
  BY <1>1, <1>5
<1>6. CASE t \in [step : {"close"}, year : Years, seen : Nat]
  BY <1>1, <1>6
<1> QED
  BY <1>1, <1>2, <1>3, <1>4, <1>5, <1>6 DEF Task

Quiet == UNCHANGED <<book, locked, closed, sale, bill, history>>

\* A handler that only reads, or fails.
Looks(w) ==
  \/ ReadYear(w) \/ ReadDraftInvoice(w) \/ ReadCreditable(w) \/ ReadPayable(w)
  \/ ReadDraftBill(w) \/ ReadOpenBill(w) \/ Fail(w)

LEMMA QuietKeeps ==
  ASSUME SoundInv, Quiet, task' \in [Worker -> Task]
  PROVE  TypeOK' /\ AllValid' /\ SaysKnown'
  BY DEF SoundInv, TypeOK, AllValid, SaysKnown, Quiet, history

\* The steps there are, the readings of the handlers taken together.
LEMMA Steps ==
  ASSUME [Next]_vars
  PROVE  \/ UNCHANGED vars
         \/ PostVerification \/ UndoVerification \/ UnlockPeriod
         \/ CreateInvoice \/ DeleteDraftInvoice \/ CreateSupplierInvoice
         \/ \E w \in Worker : \/ Looks(w) \/ CloseFiscalYear(w)
                             \/ FinalizeInvoice(w) \/ CreditInvoice(w) \/ RecordPayment(w)
                             \/ FinalizeSupplierInvoice(w) \/ RecordSupplierPayment(w)
  BY DEF Next, Looks

\* What the steps leave alone.
LEMMA Untouched ==
  /\ UNCHANGED vars => Quiet /\ task' = task
  /\ \A w : Looks(w) => Quiet
  /\ PostVerification \/ UndoVerification \/ UnlockPeriod =>
       sale' = sale /\ bill' = bill /\ task' = task /\ closed' = closed /\ astray' = astray /\ missed' = missed
  /\ UnlockPeriod => book' = book
  /\ CreateInvoice \/ DeleteDraftInvoice =>
       book' = book /\ bill' = bill /\ task' = task /\ closed' = closed /\ astray' = astray /\ missed' = missed
  /\ CreateSupplierInvoice =>
       book' = book /\ sale' = sale /\ task' = task /\ closed' = closed /\ astray' = astray /\ missed' = missed
  /\ \A w : CloseFiscalYear(w) => sale' = sale /\ bill' = bill /\ astray' = astray
  /\ \A w : FinalizeInvoice(w) \/ CreditInvoice(w) =>
       bill' = bill /\ closed' = closed /\ astray' = astray /\ missed' = missed
  /\ \A w : RecordPayment(w) => bill' = bill /\ closed' = closed /\ missed' = missed
  /\ \A w : FinalizeSupplierInvoice(w) \/ RecordSupplierPayment(w) =>
       sale' = sale /\ closed' = closed /\ astray' = astray /\ missed' = missed
<1>1. UNCHANGED vars => Quiet /\ task' = task
  BY DEF vars, Quiet, history
<1>2. \A w : Looks(w) => Quiet
  BY DEF Looks, ReadYear, ReadDraftInvoice, ReadCreditable, ReadPayable, ReadDraftBill, ReadOpenBill, Fail,
     reads, Quiet
<1>3. PostVerification \/ UndoVerification \/ UnlockPeriod =>
        sale' = sale /\ bill' = bill /\ task' = task /\ closed' = closed /\ astray' = astray /\ missed' = missed
  BY DEF PostVerification, UndoVerification, UnlockPeriod, history
<1>4. UnlockPeriod => book' = book
  BY DEF UnlockPeriod
<1>5. CreateInvoice \/ DeleteDraftInvoice =>
        book' = book /\ bill' = bill /\ task' = task /\ closed' = closed /\ astray' = astray /\ missed' = missed
  BY DEF CreateInvoice, DeleteDraftInvoice, history
<1>6. CreateSupplierInvoice =>
        book' = book /\ sale' = sale /\ task' = task /\ closed' = closed /\ astray' = astray /\ missed' = missed
  BY DEF CreateSupplierInvoice, history
<1>7. \A w : CloseFiscalYear(w) => sale' = sale /\ bill' = bill /\ astray' = astray
  BY DEF CloseFiscalYear
<1>8. \A w : FinalizeInvoice(w) \/ CreditInvoice(w) =>
        bill' = bill /\ closed' = closed /\ astray' = astray /\ missed' = missed
  BY DEF FinalizeInvoice, CreditInvoice, history
<1>9. \A w : RecordPayment(w) => bill' = bill /\ closed' = closed /\ missed' = missed
  BY DEF RecordPayment
<1>10. \A w : FinalizeSupplierInvoice(w) \/ RecordSupplierPayment(w) =>
         sale' = sale /\ closed' = closed /\ astray' = astray /\ missed' = missed
  BY DEF FinalizeSupplierInvoice, RecordSupplierPayment, history
<1> QED
  BY <1>1, <1>2, <1>3, <1>4, <1>5, <1>6, <1>7, <1>8, <1>9, <1>10

LEMMA PostVerificationKeeps ==
  ASSUME SoundInv, PostVerification
  PROVE  TypeOK' /\ AllValid' /\ SaysKnown'
<1>1. PICK y \in Years, series \in ManualSeries, lines \in Manual : postVerification(series, y, lines, FALSE)
  BY DEF PostVerification
<1>2. lines \in Seq(Line)
  BY BooksAssumption
<1>3. book' \in Seq(Voucher) /\ AllValid'
  BY <1>1, <1>2, PostKeeps DEF SoundInv
<1> QED
  BY <1>3 DEF PostVerification, SoundInv, TypeOK, SaysKnown, history

LEMMA UndoVerificationKeeps ==
  ASSUME SoundInv, UndoVerification
  PROVE  TypeOK' /\ AllValid' /\ SaysKnown'
<1>1. PICK y \in Years, k \in DOMAIN book : postVerification("R", y, ReverseLines(book[k].lines), FALSE)
  BY DEF UndoVerification
<1>2. ReverseLines(book[k].lines) \in Seq(Line)
  BY BookType, ReverseType DEF SoundInv
<1>3. book' \in Seq(Voucher) /\ AllValid'
  BY <1>1, <1>2, PostKeeps DEF SoundInv
<1> QED
  BY <1>3 DEF UndoVerification, SoundInv, TypeOK, SaysKnown, history

LEMMA CloseFiscalYearKeeps ==
  ASSUME SoundInv, NEW w \in Worker, CloseFiscalYear(w)
  PROVE  TypeOK' /\ AllValid' /\ SaysKnown'
<1> DEFINE y == task[w].year
           n == task[w].seen
           tb == TrialBalanceOfYear(y, n)
<1>1. y \in Years /\ n \in Nat /\ n <= Len(book) /\ SumsFit(tb)
  BY TaskType DEF CloseFiscalYear, SoundInv, TasksSound, TaskSound
<1>2. /\ postVerification("O", y, CloseLines(tb), TRUE)
      /\ closed' = closed \cup {y} /\ locked' = y
      /\ missed' \subseteq missed \cup {y}
      /\ task' = [task EXCEPT ![w] = Idle] /\ sale' = sale /\ bill' = bill /\ astray' = astray
  BY DEF CloseFiscalYear, done
<1>3. IsFiniteSet(DOMAIN tb) /\ DOMAIN tb \subseteq Nat
  BY <1>1, YearBalance DEF SoundInv
<1>4. \A a \in DOMAIN tb : tb[a] \in Amount
  BY <1>1 DEF SumsFit
<1> HIDE DEF tb
<1>5. CloseLines(tb) \in Seq(Line)
  BY <1>3, <1>4, CloseLinesType
<1> HIDE DEF y, n
<1>6. book' \in Seq(Voucher) /\ AllValid'
  BY <1>1, <1>2, <1>5, PostKeeps DEF SoundInv
<1>7. task' \in [Worker -> Task]
  BY <1>2 DEF SoundInv, TypeOK, Task
<1> QED
  BY <1>1, <1>2, <1>6, <1>7 DEF SoundInv, TypeOK, SaysKnown

LEMMA CreateInvoiceKeeps ==
  ASSUME SoundInv, CreateInvoice
  PROVE  TypeOK' /\ AllValid' /\ SaysKnown'
<1>1. PICK i \in Inv, d \in Drafts : sale' = [sale EXCEPT ![i].status = "draft", ![i].says = d]
  BY DEF CreateInvoice
<1>2. sale' \in [Inv -> Sale] /\ SaysKnown'
  BY <1>1 DEF SoundInv, TypeOK, Sale, SaysKnown
<1> QED
  BY <1>2 DEF CreateInvoice, SoundInv, TypeOK, AllValid, history

LEMMA DeleteDraftInvoiceKeeps ==
  ASSUME SoundInv, DeleteDraftInvoice
  PROVE  TypeOK' /\ AllValid' /\ SaysKnown'
<1>1. PICK i \in Inv : sale[i].status = "draft" /\ sale' = [sale EXCEPT ![i].status = "deleted"]
  BY DEF DeleteDraftInvoice
<1>2. sale' \in [Inv -> Sale] /\ SaysKnown'
  BY <1>1 DEF SoundInv, TypeOK, Sale, SaysKnown
<1> QED
  BY <1>2 DEF DeleteDraftInvoice, SoundInv, TypeOK, AllValid, history

\* A handler posts its voucher in series F and the invoice moves, or not.
LEMMA IssueKeeps ==
  ASSUME SoundInv, NEW w \in Worker, FinalizeInvoice(w) \/ CreditInvoice(w)
  PROVE  TypeOK' /\ AllValid' /\ SaysKnown'
<1> DEFINE i == task[w].inv
<1>1. i \in Inv /\ sale[i].status # "none"
  BY TaskType DEF FinalizeInvoice, CreditInvoice, SoundInv, TasksSound, TaskSound
<1>2. VerificationLines(sale[i].says) \in Seq(Line)
  BY <1>1, SaleLines DEF SoundInv
<1>3. ReverseLines(VerificationLines(sale[i].says)) \in Seq(Line)
  BY <1>2, ReverseType
<1>4. PICK y \in Years, lines \in Seq(Line), applied \in BOOLEAN, to \in {"finalized", "credited"} :
             /\ postVerification("F", y, lines, applied)
             /\ sale' = IF applied THEN [sale EXCEPT ![i].status = to] ELSE sale
  <2>1. CASE FinalizeInvoice(w)
    <3>1. \E y \in Years : postVerification("F", y, VerificationLines(sale[i].says), sale[i].status = "draft")
      BY <2>1 DEF FinalizeInvoice
    <3>2. /\ (sale[i].status = "draft") \in BOOLEAN
          /\ sale' = IF sale[i].status = "draft" THEN [sale EXCEPT ![i].status = "finalized"] ELSE sale
      BY <2>1 DEF FinalizeInvoice
    <3> QED
      BY <1>2, <3>1, <3>2
  <2>2. CASE CreditInvoice(w)
    <3>1. \E y \in Years : postVerification("F", y, ReverseLines(VerificationLines(sale[i].says)),
                                           sale[i].status \in {"finalized", "paid"})
      BY <2>2 DEF CreditInvoice
    <3>2. /\ (sale[i].status \in {"finalized", "paid"}) \in BOOLEAN
          /\ sale' = IF sale[i].status \in {"finalized", "paid"} THEN [sale EXCEPT ![i].status = "credited"] ELSE sale
      BY <2>2 DEF CreditInvoice
    <3> QED
      BY <1>3, <3>1, <3>2
  <2> QED
    BY <2>1, <2>2
<1>5. /\ task' = [task EXCEPT ![w] = Idle] /\ locked' = locked /\ closed' = closed /\ bill' = bill
      /\ astray' = astray /\ missed' = missed
  BY DEF FinalizeInvoice, CreditInvoice, done, history
<1> HIDE DEF i
<1>6. book' \in Seq(Voucher) /\ AllValid'
  BY <1>4, PostKeeps DEF SoundInv
<1>7. sale' \in [Inv -> Sale] /\ SaysKnown'
  BY <1>1, <1>4 DEF SoundInv, TypeOK, Sale, SaysKnown
<1>8. task' \in [Worker -> Task]
  BY <1>5 DEF SoundInv, TypeOK, Task
<1> QED
  BY <1>5, <1>6, <1>7, <1>8 DEF SoundInv, TypeOK

LEMMA RecordPaymentKeeps ==
  ASSUME SoundInv, NEW w \in Worker, RecordPayment(w)
  PROVE  TypeOK' /\ AllValid' /\ SaysKnown'
<1> DEFINE i == task[w].inv
           sum == task[w].amount
           s == SettlementOf(i, task[w].paid, sum)
           p == sale[i].paid + sum
           st == IF s.full THEN "paid" ELSE sale[i].status
           f == sale[i].settled \/ s.full
<1>1. /\ i \in Inv /\ sale[i].status # "none"
      /\ sum \in Payments /\ sum > 0 /\ task[w].paid \in 0 .. MaxAmount
  BY TaskType DEF RecordPayment, SoundInv, TasksSound, TaskSound, Issued
<1>2. sum \in Amount /\ task[w].paid \in Nat /\ GrossSEK(sale[i].says) \in Amount /\ MaxAmount \in Nat
  BY <1>1, SaleLines, BooksAssumption, AmountsAre DEF SoundInv
<1>3. s.lines \in Seq(Line) /\ s.full \in BOOLEAN
  BY <1>2, SettlementType DEF SettlementOf
<1>4. /\ \E y \in Years : postVerification("B", y, s.lines, TRUE)
      /\ p <= MaxAmount
      /\ sale' = [sale EXCEPT ![i].paid = @ + sum, ![i].settled = @ \/ s.full,
                             ![i].status = IF s.full THEN "paid" ELSE @]
      /\ astray' \subseteq astray \cup {i} /\ missed' = missed
      /\ task' = [task EXCEPT ![w] = Idle] /\ locked' = locked /\ closed' = closed /\ bill' = bill
  BY DEF RecordPayment, done
<1>5. book' \in Seq(Voucher) /\ AllValid'
  BY <1>3, <1>4, PostKeeps DEF SoundInv
<1>6. sale \in [Inv -> Sale] /\ sale[i] \in Sale /\ sale[i].paid \in Nat
  BY <1>1, AmountsAre DEF SoundInv, TypeOK, Sale
<1>7. task' \in [Worker -> Task]
  BY <1>4 DEF SoundInv, TypeOK, Task
<1> HIDE DEF s
<1>8. /\ DOMAIN sale' = Inv /\ \A j \in Inv : j # i => sale'[j] = sale[j]
      /\ sale' = [j \in Inv |-> sale'[j]]
      /\ sale'[i] = [sale[i] EXCEPT !.paid = p, !.settled = f, !.status = st]
  BY <1>1, <1>4, <1>6
<1>9. st \in {"paid", sale[i].status} /\ f \in BOOLEAN
  BY <1>3
<1>10. p \in 0 .. MaxAmount
  <2>1. sum \in Int /\ p \in Int /\ p >= 0
    BY <1>1, <1>2, <1>6, AmountsAre
  <2> HIDE DEF p
  <2> QED
    BY <1>2, <1>4, <2>1
<1> HIDE DEF p, st, f, sum
<1>11. sale'[i] \in Sale /\ sale'[i].says = sale[i].says
  BY <1>6, <1>8, <1>9, <1>10 DEF Sale
<1> HIDE DEF i
<1>12. sale' \in [Inv -> Sale] /\ SaysKnown'
  <2>1. sale' \in [Inv -> Sale]
    BY <1>6, <1>8, <1>11
  <2>2. \A j \in Inv : sale[j].status # "none" => sale[j].says \in Drafts
    BY DEF SoundInv, SaysKnown
  <2>3. sale'[i].says \in Drafts
    BY <1>1, <1>11, <2>2
  <2>4. \A j \in Inv : sale'[j].status # "none" => sale'[j].says \in Drafts
    BY <1>8, <2>2, <2>3
  <2> QED
    BY <2>1, <2>4 DEF SaysKnown
<1>13. locked' \in Years \cup {0} /\ closed' \subseteq Years /\ astray' \subseteq Inv /\ missed' \subseteq closed'
  BY <1>1, <1>4 DEF SoundInv, TypeOK
<1>14. bill' \in [Bill -> BillRow] /\ \A b \in Bill : bill'[b].status # "none" => bill'[b].net > 0
  BY <1>4 DEF SoundInv, TypeOK
<1> QED
  BY <1>5, <1>7, <1>12, <1>13, <1>14 DEF TypeOK

LEMMA CreateSupplierInvoiceKeeps ==
  ASSUME SoundInv, CreateSupplierInvoice
  PROVE  TypeOK' /\ AllValid' /\ SaysKnown'
<1>1. PICK b \in Bill, p \in Purchases :
             /\ p.code \in PurchaseCodes /\ p.net > 0
             /\ bill' = [bill EXCEPT ![b] = [status |-> "draft", net |-> p.net, code |-> p.code]]
  BY DEF CreateSupplierInvoice
<1>2. p.net \in 0 .. MaxAmount
  <2>1. p.net \in Amount
    BY BooksAssumption
  <2>2. p.net \in Int /\ p.net <= MaxAmount /\ MaxAmount \in Nat
    BY <2>1, AmountsAre
  <2> QED
    BY <1>1, <2>2
<1>3. bill' \in [Bill -> BillRow] /\ \A c \in Bill : bill'[c].status # "none" => bill'[c].net > 0
  BY <1>1, <1>2 DEF SoundInv, TypeOK, BillRow
<1> QED
  BY <1>3 DEF CreateSupplierInvoice, SoundInv, TypeOK, AllValid, SaysKnown, history

LEMMA SupplierKeeps ==
  ASSUME SoundInv, NEW w \in Worker, FinalizeSupplierInvoice(w) \/ RecordSupplierPayment(w)
  PROVE  TypeOK' /\ AllValid' /\ SaysKnown'
<1>1. PICK y \in Years, series \in {"L", "LB"} : postVerification(series, y, task[w].lines, TRUE)
  BY DEF FinalizeSupplierInvoice, RecordSupplierPayment
<1>2. task[w].lines \in Seq(Line) /\ task[w].bill \in Bill
  BY TaskType DEF FinalizeSupplierInvoice, RecordSupplierPayment, SoundInv
<1>3. book' \in Seq(Voucher) /\ AllValid'
  BY <1>1, <1>2, PostKeeps DEF SoundInv
<1>4. task' \in [Worker -> Task]
  BY DEF FinalizeSupplierInvoice, RecordSupplierPayment, done, SoundInv, TypeOK, Task
<1>5. PICK to \in {"finalized", "paid"}, from \in {"draft", "finalized"} :
             bill[task[w].bill].status = from /\ bill' = [bill EXCEPT ![task[w].bill].status = to]
  BY DEF FinalizeSupplierInvoice, RecordSupplierPayment, SetBill
<1>6. bill' \in [Bill -> BillRow] /\ \A c \in Bill : bill'[c].status # "none" => bill'[c].net > 0
  BY <1>2, <1>5 DEF SoundInv, TypeOK, BillRow
<1>7. /\ locked' = locked /\ closed' = closed /\ sale' = sale
      /\ astray' = astray /\ missed' = missed
  BY DEF FinalizeSupplierInvoice, RecordSupplierPayment, history
<1> QED
  BY <1>3, <1>4, <1>6, <1>7 DEF SoundInv, TypeOK, SaysKnown

\* What each kind of handler reads.
LEMMA ReadTasks ==
  ASSUME SoundInv, NEW w \in Worker, Looks(w)
  PROVE  \E t \in Task : /\ task' = [task EXCEPT ![w] = t] /\ Quiet
                         /\ TaskSound(t)
<1>1. CASE ReadYear(w)
  <2>1. PICK y \in Years : /\ SumsFit(TrialBalanceOfYear(y, Len(book)))
                           /\ reads(w, [step |-> "close", year |-> y, seen |-> Len(book)])
    BY <1>1 DEF ReadYear
  <2> DEFINE t == [step |-> "close", year |-> y, seen |-> Len(book)]
  <2>2. Len(book) \in Nat
    BY BookType DEF SoundInv
  <2>3. t \in Task
    BY <2>2 DEF Task
  <2>4. TaskSound(t)
    BY <2>1, <2>2 DEF TaskSound
  <2>5. task' = [task EXCEPT ![w] = t] /\ Quiet
    BY <2>1 DEF reads, Quiet
  <2> QED
    BY <2>3, <2>4, <2>5
<1>2. CASE ReadDraftInvoice(w) \/ ReadCreditable(w)
  <2>1. PICK i \in Inv, step \in {"issue", "credit"} :
               sale[i].status # "none" /\ reads(w, [step |-> step, inv |-> i])
    BY <1>2 DEF ReadDraftInvoice, ReadCreditable
  <2> DEFINE t == [step |-> step, inv |-> i]
  <2>3. t \in Task
    BY DEF Task
  <2>4. TaskSound(t)
    BY <2>1 DEF TaskSound
  <2>5. task' = [task EXCEPT ![w] = t] /\ Quiet
    BY <2>1 DEF reads, Quiet
  <2> QED
    BY <2>3, <2>4, <2>5
<1>3. CASE ReadPayable(w)
  <2>1. PICK i \in Inv, sum \in Payments :
               /\ sale[i].status \in Issued /\ sum > 0 /\ SettlementOf(i, sale[i].paid, sum).take
               /\ reads(w, [step |-> "settle", inv |-> i, amount |-> sum, paid |-> sale[i].paid])
    BY <1>3 DEF ReadPayable, Issued
  <2> DEFINE t == [step |-> "settle", inv |-> i, amount |-> sum, paid |-> sale[i].paid]
  <2>2. sale[i].paid \in 0 .. MaxAmount
    BY DEF SoundInv, TypeOK, Sale
  <2>3. t \in Task
    BY <2>2 DEF Task
  <2>4. TaskSound(t)
    BY <2>1, <2>2, AmountsAre DEF TaskSound
  <2>5. task' = [task EXCEPT ![w] = t] /\ Quiet
    BY <2>1 DEF reads, Quiet
  <2> QED
    BY <2>3, <2>4, <2>5
<1>4. CASE ReadDraftBill(w)
  <2>1. PICK b \in Bill :
               reads(w, [step |-> "finalize", bill |-> b,
                         lines |-> PurchaseLines(CostAccount, bill[b].net, bill[b].code)])
    BY <1>4 DEF ReadDraftBill
  <2> DEFINE ls == PurchaseLines(CostAccount, bill[b].net, bill[b].code)
             t == [step |-> "finalize", bill |-> b, lines |-> ls]
  <2>2. bill[b].net \in Amount /\ CostAccount \in Nat
    BY BillNet, BooksAssumption DEF SoundInv
  <2>3. ls \in Seq(Line)
    BY <2>2, PurchaseLinesType
  <2>4. task' = [task EXCEPT ![w] = t] /\ Quiet
    BY <2>1 DEF reads, Quiet
  <2> HIDE DEF ls
  <2>5. t \in Task /\ TaskSound(t)
    BY <2>3 DEF Task, TaskSound
  <2> QED
    BY <2>4, <2>5
<1>5. CASE ReadOpenBill(w)
  <2>1. PICK b \in Bill, sum \in Payments :
               reads(w, [step |-> "pay", bill |-> b,
                         lines |-> SupplierPaymentLines(Payable(bill[b].net, bill[b].code), sum)])
    BY <1>5 DEF ReadOpenBill
  <2> DEFINE ls == SupplierPaymentLines(Payable(bill[b].net, bill[b].code), sum)
             t == [step |-> "pay", bill |-> b, lines |-> ls]
  <2>2. bill[b].net \in Amount /\ sum \in Amount /\ CostAccount \in Nat
    BY BillNet, BooksAssumption DEF SoundInv
  <2>3. Payable(bill[b].net, bill[b].code) \in Amount
    BY <2>2, PurchaseLinesType
  <2>4. ls \in Seq(Line)
    BY <2>2, <2>3, SupplierPaymentLinesType
  <2>5. task' = [task EXCEPT ![w] = t] /\ Quiet
    BY <2>1 DEF reads, Quiet
  <2> HIDE DEF ls
  <2>6. t \in Task /\ TaskSound(t)
    BY <2>4 DEF Task, TaskSound
  <2> QED
    BY <2>5, <2>6
<1>6. CASE Fail(w)
  <2>1. task' = [task EXCEPT ![w] = Idle] /\ Quiet
    BY <1>6 DEF Fail, done, Quiet
  <2>2. Idle \in Task /\ TaskSound(Idle)
    BY DEF Task, Idle, TaskSound
  <2> QED
    BY <2>1, <2>2
<1> QED
  BY <1>1, <1>2, <1>3, <1>4, <1>5, <1>6 DEF Looks

LEMMA TypeStep ==
  ASSUME SoundInv, [Next]_vars
  PROVE  TypeOK' /\ AllValid' /\ SaysKnown'
<1>1. CASE UNCHANGED vars
  BY <1>1 DEF vars, SoundInv, TypeOK, AllValid, SaysKnown
<1>2. CASE UnlockPeriod
  BY <1>2 DEF UnlockPeriod, SoundInv, TypeOK, AllValid, SaysKnown, history
<1>3. ASSUME NEW w \in Worker, Looks(w)
      PROVE  TypeOK' /\ AllValid' /\ SaysKnown'
  <2>1. PICK t \in Task : task' = [task EXCEPT ![w] = t] /\ Quiet
    BY <1>3, ReadTasks
  <2>2. task' \in [Worker -> Task]
    BY <2>1 DEF SoundInv, TypeOK
  <2> QED
    BY <2>1, <2>2, QuietKeeps
<1> QED
  BY <1>1, <1>2, <1>3, PostVerificationKeeps, UndoVerificationKeeps, CloseFiscalYearKeeps,
     CreateInvoiceKeeps, DeleteDraftInvoiceKeeps, IssueKeeps, RecordPaymentKeeps,
     CreateSupplierInvoiceKeeps, SupplierKeeps, Steps

\* The book only grows.
LEMMA BookGrows ==
  ASSUME [Next]_vars
  PROVE  book' = book \/ \E series, y, lines, applied : postVerification(series, y, lines, applied)
<1>1. CASE PostVerification \/ UndoVerification
  BY <1>1 DEF PostVerification, UndoVerification
<1>2. ASSUME NEW w \in Worker, CloseFiscalYear(w)
      PROVE  \E series, y, lines, applied : postVerification(series, y, lines, applied)
  BY <1>2 DEF CloseFiscalYear
<1>3. ASSUME NEW w \in Worker, FinalizeInvoice(w)
      PROVE  \E series, y, lines, applied : postVerification(series, y, lines, applied)
  BY <1>3 DEF FinalizeInvoice
<1>4. ASSUME NEW w \in Worker, CreditInvoice(w)
      PROVE  \E series, y, lines, applied : postVerification(series, y, lines, applied)
  BY <1>4 DEF CreditInvoice
<1>5. ASSUME NEW w \in Worker, RecordPayment(w)
      PROVE  \E series, y, lines, applied : postVerification(series, y, lines, applied)
  BY <1>5 DEF RecordPayment
<1>6. ASSUME NEW w \in Worker, FinalizeSupplierInvoice(w) \/ RecordSupplierPayment(w)
      PROVE  \E series, y, lines, applied : postVerification(series, y, lines, applied)
  BY <1>6 DEF FinalizeSupplierInvoice, RecordSupplierPayment
<1> QED
  BY <1>1, <1>2, <1>3, <1>4, <1>5, <1>6, Steps, Untouched DEF Quiet

LEMMA BookPrefix ==
  ASSUME TypeOK, TypeOK', [Next]_vars
  PROVE  /\ Len(book) \in Nat /\ Len(book') \in Nat /\ Len(book) <= Len(book')
         /\ \A k \in 1 .. Len(book) : book'[k] = book[k]
<1>1. book \in Seq(Voucher) /\ book' \in Seq(Voucher)
  BY DEF TypeOK
<1>2. CASE book' = book
  BY <1>1, <1>2
<1>3. ASSUME NEW v, book' = Append(book, v)
      PROVE  /\ Len(book') = Len(book) + 1 /\ Len(book) \in Nat
             /\ \A k \in 1 .. Len(book) : book'[k] = book[k]
  BY <1>1, <1>3
<1>4. book' = book \/ \E v : book' = Append(book, v)
  BY BookGrows, Zenon DEF postVerification
<1> QED
  BY <1>2, <1>3, <1>4

\* What a handler has seen of a year does not change.
LEMMA SeenStays ==
  ASSUME TypeOK, TypeOK', [Next]_vars, NEW y, NEW n \in Nat, n <= Len(book)
  PROVE  TrialBalanceOfYear(y, n)' = TrialBalanceOfYear(y, n)
<1> DEFINE K == OfYear(y, n)
           L == {k \in 1 .. n : book'[k].year = y /\ book'[k].series # "O"}
<1>1. \A k \in 1 .. n : k \in 1 .. Len(book) /\ book'[k] = book[k]
  BY BookPrefix
<1>2. L = K
  BY <1>1 DEF OfYear
<1>3. TrialBalanceOfYear(y, n) = BalancesOf(book, K) /\ TrialBalanceOfYear(y, n)' = BalancesOf(book', L)
  BY DEF TrialBalanceOfYear, OfYear
<1>4. \A k \in K : book'[k] = book[k]
  BY <1>1 DEF OfYear
<1> HIDE DEF K, L
<1>5. AccountsIn(book', K) = AccountsIn(book, K)
  BY <1>4 DEF AccountsIn
<1>6. \A a : TotalOn(book', K, a) = TotalOn(book, K, a)
  BY <1>4 DEF TotalOn
<1> QED
  BY <1>2, <1>3, <1>5, <1>6 DEF BalancesOf

\* What an invoice says never changes, and it never goes away.
LEMMA SalesKeep ==
  ASSUME SoundInv, [Next]_vars, NEW i \in Inv, sale[i].status # "none"
  PROVE  /\ sale'[i].status # "none" /\ sale'[i].says = sale[i].says
         /\ sale[i].paid \in Int /\ sale'[i].paid \in Int /\ sale[i].paid <= sale'[i].paid
         /\ sale[i].status \in Issued => sale'[i].status \in Issued
<1> DEFINE Keeps == /\ sale'[i].status # "none" /\ sale'[i].says = sale[i].says
                    /\ sale[i].paid \in Int /\ sale'[i].paid \in Int /\ sale[i].paid <= sale'[i].paid
                    /\ sale[i].status \in Issued => sale'[i].status \in Issued
<1>1. sale \in [Inv -> Sale] /\ sale[i] \in Sale /\ sale[i].paid \in Int
  BY AmountsAre DEF SoundInv, TypeOK, Sale
<1>2. ASSUME NEW j \in Inv, NEW st, st # "none", sale[j].status \in Issued => st \in Issued,
             sale' = [sale EXCEPT ![j].status = st] PROVE Keeps
  <2>1. CASE j # i
    BY <1>1, <1>2, <2>1
  <2>2. CASE j = i
    <3>1. sale'[i] = [sale[i] EXCEPT !.status = st]
      BY <1>1, <1>2, <2>2
    <3>2. sale'[i].status = st /\ sale'[i].says = sale[i].says /\ sale'[i].paid = sale[i].paid
      BY <1>1, <3>1 DEF Sale
    <3> QED
      BY <1>1, <1>2, <3>2
  <2> QED
    BY <2>1, <2>2
<1>3. CASE sale' = sale
  BY <1>1, <1>3
<1>4. CASE CreateInvoice
  <2>1. PICK j \in Inv, d \in Drafts :
               sale[j].status = "none" /\ sale' = [sale EXCEPT ![j].status = "draft", ![j].says = d]
    BY <1>4 DEF CreateInvoice
  <2> QED
    BY <1>1, <2>1
<1>5. CASE DeleteDraftInvoice
  BY <1>2, <1>5 DEF DeleteDraftInvoice, Issued
<1>6. ASSUME NEW w \in Worker, FinalizeInvoice(w) \/ CreditInvoice(w) PROVE Keeps
  <2>1. task[w].inv \in Inv
    BY <1>6, TaskType DEF FinalizeInvoice, CreditInvoice, SoundInv
  <2>2. sale' = sale \/ sale' = [sale EXCEPT ![task[w].inv].status = "finalized"]
        \/ sale' = [sale EXCEPT ![task[w].inv].status = "credited"]
    BY <1>6 DEF FinalizeInvoice, CreditInvoice
  <2> QED
    BY <1>2, <1>3, <2>1, <2>2 DEF Issued
<1>7. ASSUME NEW w \in Worker, RecordPayment(w) PROVE Keeps
  <2> DEFINE j == task[w].inv
             sum == task[w].amount
             s == SettlementOf(j, task[w].paid, sum)
             p == sale[j].paid + sum
             f == sale[j].settled \/ s.full
             st == IF s.full THEN "paid" ELSE sale[j].status
  <2>1. j \in Inv /\ sum \in Amount /\ sum > 0
    BY <1>7, TaskType, BooksAssumption DEF RecordPayment, SoundInv, TasksSound, TaskSound
  <2>2. sale' = [sale EXCEPT ![j].paid = @ + sum, ![j].settled = @ \/ s.full,
                             ![j].status = IF s.full THEN "paid" ELSE @]
    BY <1>7 DEF RecordPayment
  <2>3. \A k \in Inv : k # j => sale'[k] = sale[k]
    BY <1>1, <2>1, <2>2
  <2>4. sale'[j] = [sale[j] EXCEPT !.paid = p, !.settled = f, !.status = st] /\ sale[j] \in Sale
    BY <1>1, <2>1, <2>2
  <2> HIDE DEF p, f, st, s
  <2>5. sale'[j].paid = p /\ sale'[j].status = st /\ sale'[j].says = sale[j].says
    BY <2>4 DEF Sale
  <2>6. (sale[j].status # "none" => st # "none") /\ (sale[j].status \in Issued => st \in Issued)
    BY DEF st, Issued
  <2>7. sale[j].paid \in Int /\ sum \in Int
    BY <2>1, <2>4, AmountsAre DEF Sale
  <2>8. p \in Int /\ sale[j].paid <= p
    BY <2>1, <2>7 DEF p
  <2> QED
    BY <1>1, <2>3, <2>5, <2>6, <2>8
<1> QED
  BY <1>3, <1>4, <1>5, <1>6, <1>7, Steps, Untouched DEF Quiet

\* A handler keeps what it has read, reads something sound, or is done.
LEMMA TaskMoves ==
  ASSUME SoundInv, [Next]_vars, NEW w \in Worker
  PROVE  \/ task'[w] = task[w]
         \/ task'[w] = Idle
         \/ \E t \in Task : task'[w] = t /\ Quiet /\ TaskSound(t)
<1>1. task \in [Worker -> Task]
  BY DEF SoundInv, TypeOK
<1>2. CASE task' = task
  BY <1>2
<1>3. ASSUME NEW v \in Worker, task' = [task EXCEPT ![v] = Idle]
      PROVE  task'[w] = task[w] \/ task'[w] = Idle
  BY <1>1, <1>3
<1>4. ASSUME NEW v \in Worker, Looks(v)
      PROVE  \/ task'[w] = task[w]
             \/ \E t \in Task : task'[w] = t /\ Quiet /\ TaskSound(t)
  <2>1. PICK t \in Task : task' = [task EXCEPT ![v] = t] /\ Quiet /\ TaskSound(t)
    BY <1>4, ReadTasks
  <2>2. CASE v = w
    <3>1. task'[w] = t
      BY <1>1, <2>1, <2>2
    <3> QED
      BY <2>1, <3>1
  <2>3. CASE v # w
    BY <1>1, <2>1, <2>3
  <2> QED
    BY <2>2, <2>3
<1>5. \/ task' = task
      \/ \E v \in Worker : task' = [task EXCEPT ![v] = Idle]
      \/ \E v \in Worker : Looks(v)
  <2>1. ASSUME NEW v \in Worker,
               \/ CloseFiscalYear(v) \/ FinalizeInvoice(v) \/ CreditInvoice(v) \/ RecordPayment(v)
               \/ FinalizeSupplierInvoice(v) \/ RecordSupplierPayment(v)
        PROVE  task' = [task EXCEPT ![v] = Idle]
    BY <2>1 DEF CloseFiscalYear, FinalizeInvoice, CreditInvoice, RecordPayment, FinalizeSupplierInvoice,
       RecordSupplierPayment, done
  <2> QED
    BY <2>1, Steps, Untouched
<1> QED
  BY <1>2, <1>3, <1>4, <1>5

LEMMA TasksStep ==
  ASSUME SoundInv, TypeOK', [Next]_vars
  PROVE  TasksSound'
<1> DEFINE After(y, n) == BalancesOf(book', {k \in 1 .. n : book'[k].year = y /\ book'[k].series # "O"})
           Takes(i, paid, sum) == Settlement(sale'[i].says.currency, GrossSEK(sale'[i].says), paid, sum).take
           Sound(t) ==
             /\ t.step \in {"issue", "credit"} => sale'[t.inv].status # "none"
             /\ t.step = "settle" =>
                  /\ sale'[t.inv].status \in Issued
                  /\ t.amount > 0 /\ t.paid <= sale'[t.inv].paid
                  /\ Takes(t.inv, t.paid, t.amount)
             /\ t.step = "close" => t.seen <= Len(book') /\ SumsFit(After(t.year, t.seen))
<1>0. \A y, n : TrialBalanceOfYear(y, n)' = After(y, n)
  BY DEF TrialBalanceOfYear
<1> HIDE DEF After, Takes
<1>1. SUFFICES ASSUME NEW w \in Worker PROVE Sound(task'[w])
  <2>1. \A w \in Worker : Sound(task'[w])
    BY <1>1
  <2> QED
    BY <2>1 DEF TasksSound, TaskSound, TrialBalanceOfYear, SettlementOf, After, Takes
<1>2. CASE task'[w] = Idle
  BY <1>2 DEF Idle
<1>3. ASSUME NEW t \in Task, TaskSound(t),
             t.step \in {"issue", "credit", "settle"} => t.inv \in Inv,
             t.step = "settle" => t.paid \in Int,
             t.step = "close" => t.year \in Years /\ t.seen \in Nat
      PROVE  Sound(t)
  <2>1. t.step \in {"issue", "credit"} => sale'[t.inv].status # "none"
    BY <1>3, SalesKeep DEF TaskSound
  <2>2. ASSUME t.step = "settle"
        PROVE  /\ sale'[t.inv].status \in Issued
               /\ t.amount > 0 /\ t.paid <= sale'[t.inv].paid
               /\ Takes(t.inv, t.paid, t.amount)
    <3>1. /\ t.inv \in Inv /\ sale[t.inv].status \in Issued /\ sale[t.inv].status # "none"
          /\ t.amount > 0 /\ t.paid <= sale[t.inv].paid /\ t.paid \in Int
          /\ SettlementOf(t.inv, t.paid, t.amount).take
      BY <1>3, <2>2 DEF TaskSound, Issued
    <3>2. /\ sale'[t.inv].status \in Issued /\ sale'[t.inv].says = sale[t.inv].says
          /\ sale[t.inv].paid \in Int /\ sale'[t.inv].paid \in Int /\ sale[t.inv].paid <= sale'[t.inv].paid
      BY <3>1, SalesKeep
    <3> QED
      BY <3>1, <3>2 DEF SettlementOf, Takes
  <2>3. ASSUME t.step = "close" PROVE t.seen <= Len(book') /\ SumsFit(After(t.year, t.seen))
    <3>1. t.year \in Years /\ t.seen \in Nat /\ t.seen <= Len(book) /\ SumsFit(TrialBalanceOfYear(t.year, t.seen))
      BY <1>3, <2>3 DEF TaskSound
    <3>2. Len(book) <= Len(book') /\ Len(book) \in Nat /\ Len(book') \in Nat
      BY BookPrefix DEF SoundInv
    <3>3. TrialBalanceOfYear(t.year, t.seen)' = TrialBalanceOfYear(t.year, t.seen)
      BY <3>1, SeenStays DEF SoundInv
    <3>4. After(t.year, t.seen) = TrialBalanceOfYear(t.year, t.seen)
      BY <1>0, <3>3
    <3> QED
      BY <3>1, <3>2, <3>4
  <2> QED
    BY <2>1, <2>2, <2>3
<1>4. ASSUME NEW t \in Task
      PROVE  /\ t.step \in {"issue", "credit", "settle"} => t.inv \in Inv
             /\ t.step = "settle" => t.paid \in Int
             /\ t.step = "close" => t.year \in Years /\ t.seen \in Nat
  BY AmountsAre DEF Task, Idle
<1>5. task[w] \in Task /\ TaskSound(task[w])
  BY DEF SoundInv, TypeOK, TasksSound
<1> HIDE DEF Sound
<1>6. CASE task'[w] = task[w]
  <2>1. PICK t \in Task : t = task[w] /\ TaskSound(t)
    BY <1>5
  <2>2. Sound(t)
    BY <1>3, <1>4, <2>1
  <2> QED
    BY <1>6, <2>1, <2>2
<1>7. ASSUME NEW t \in Task, task'[w] = t, Quiet, TaskSound(t) PROVE Sound(task'[w])
  <2>1. Sound(t)
    BY <1>3, <1>4, <1>7
  <2> QED
    BY <1>7, <2>1
<1> QED
  BY <1>2, <1>6, <1>7, TaskMoves

LEMMA SoundStep ==
  ASSUME SoundInv, [Next]_vars
  PROVE  SoundInv'
<1>1. TypeOK' /\ AllValid' /\ SaysKnown'
  BY TypeStep
<1>2. TasksSound'
  BY <1>1, TasksStep
<1> QED
  BY <1>1, <1>2 DEF SoundInv

LEMMA EmptyBook ==
  ASSUME Init
  PROVE  book \in Seq(Voucher) /\ DOMAIN book = {}
<1>1. book = << >>
  BY DEF Init
<1>2. << >> \in Seq(Voucher) /\ DOMAIN << >> = {}
  OBVIOUS
<1> QED
  BY <1>1, <1>2

LEMMA SoundInit ==
  ASSUME Init
  PROVE  SoundInv
<1>1. book \in Seq(Voucher) /\ DOMAIN book = {}
  BY EmptyBook
<1>2. 0 \in 0 .. MaxAmount
  BY AmountsAre
<1>3. sale \in [Inv -> Sale] /\ SaysKnown
  BY <1>2 DEF Init, Sale, SaysKnown
<1>4. bill \in [Bill -> BillRow] /\ \A b \in Bill : bill[b].status = "none"
  BY <1>2 DEF Init, BillRow
<1>5. task \in [Worker -> Task] /\ \A w \in Worker : task[w] = Idle
  BY DEF Init, Task
<1>6. TasksSound
  BY <1>5 DEF TasksSound, TaskSound, Idle
<1> QED
  BY <1>1, <1>3, <1>4, <1>5, <1>6 DEF Init, SoundInv, TypeOK, AllValid

\* A voucher that passes Validate balances in exact arithmetic.
LEMMA SoundIsSound ==
  ASSUME SoundInv
  PROVE  VouchersSound
<1>1. ASSUME NEW k \in DOMAIN book
      PROVE  /\ Exact(book[k].lines, LAMBDA l : l.debit) = Exact(book[k].lines, LAMBDA l : l.credit)
             /\ Exact(book[k].lines, LAMBDA l : l.debit) \in Amount
  <2> DEFINE ls == book[k].lines
             d == SumFunction([i \in DOMAIN ls |-> ls[i].debit])
             c == SumFunction([i \in DOMAIN ls |-> ls[i].credit])
  <2>1. ls \in Seq(Line) /\ Validate(ls)
    BY BookType DEF SoundInv, AllValid
  <2>2. Exact(ls, LAMBDA l : l.debit) = d /\ Exact(ls, LAMBDA l : l.credit) = c
    BY DEF Exact
  <2> HIDE DEF ls
  <2>3. d = c /\ d \in 0 .. MaxAmount
    BY <2>1, ValidateIsExact
  <2> HIDE DEF d, c
  <2>4. d \in Amount
    BY <2>3, AmountsAre DEF Amount
  <2> QED
    BY <2>2, <2>3, <2>4 DEF ls
<1> QED
  BY <1>1 DEF VouchersSound, BalancedExactly, SoundInv

\* The rows keep their kinds and every voucher of the books balances in exact
\* arithmetic, whatever amounts were typed: the overflow checks of Validate are
\* enough, for an int64 and any other width.
THEOREM VouchersAreSound == Spec => []VouchersSound
<1>1. Init => SoundInv
  BY SoundInit
<1>2. SoundInv /\ [Next]_vars => SoundInv'
  BY SoundStep
<1>3. SoundInv => VouchersSound
  BY SoundIsSound
<1> QED
  BY <1>1, <1>2, <1>3, PTL DEF Spec

-----------------------------------------------------------------------------
(* The sub-ledgers                                                         *)

\* The form offers the codes of codeOrder only.
KnownCodes == \A d \in Drafts : CodesOf(d) \subseteq Range(codeOrder)

\* The cost account of the bills is not the account of what is owed for them.
CostIsNoDebt == CostAccount # 2440

\* What a row says of the payments of its invoice.
RowSound(row) ==
  /\ row.status \in Issued => Validate(VerificationLines(row.says))
  /\ row.status \in {"none", "draft", "deleted"} => row.paid = 0
  /\ row.status \in {"none", "draft", "deleted", "finalized"} => ~row.settled
  /\ row.status = "paid" => row.settled

SalesInv == \A i \in Inv : RowSound(sale[i])

\* What a handler is about to put on 2440 agrees with the row of its bill, which
\* may have moved on since the handler read it.
BillSound(t) ==
  t.step \in {"finalize", "pay"} =>
    LET b == bill[t.bill]
        debt == Payable(b.net, b.code)
    IN  /\ b.status # "none"
        /\ NetOn(t.lines, 2440) = IF t.step = "finalize" THEN -debt ELSE debt

BillsInv == \A w \in Worker : BillSound(task[w])

\* The vouchers of documents in the series S.
Of(S) == {k \in DOMAIN book : book[k].series \in S /\ book[k].applied}

LEMMA OfSeriesIs ==
  ASSUME TypeOK, NEW S, NEW a
  PROVE  /\ BalanceOf(OfSeries(S), a) = TotalOn(book, Of(S), a) /\ TotalOn(book, Of(S), a) \in Int
         /\ IsFiniteSet(Of(S)) /\ \A k \in Of(S) : book[k].lines \in Seq(Line)
<1>1. OfSeries(S) = BalancesOf(book, Of(S))
  BY DEF OfSeries, TrialBalance, Of
<1>2. IsFiniteSet(Of(S)) /\ \A k \in Of(S) : book[k].lines \in Seq(Line)
  BY BookType, FS_Subset DEF Of
<1> QED
  BY <1>1, <1>2, BalanceIsTotal, TotalOnType

\* A voucher of a document, and one that no document took.
Appended(v) == book' = Append(book, v)

Documented(series, y, lines) ==
  /\ Validate(lines)
  /\ \E v : /\ Appended(v)
           /\ v.series = series /\ v.year = y /\ v.lines = lines /\ v.applied

Aside == \E v : Appended(v) /\ ~v.applied

LEMMA PostIsDocumented ==
  ASSUME NEW series, NEW y, NEW lines, postVerification(series, y, lines, TRUE)
  PROVE  Documented(series, y, lines)
<1> DEFINE v == [series |-> series, year |-> y, lines |-> lines, applied |-> TRUE]
<1>1. book' = Append(book, v) /\ Validate(lines)
  BY DEF postVerification
<1>2. v.series = series /\ v.year = y /\ v.lines = lines /\ v.applied
  OBVIOUS
<1> HIDE DEF v
<1> QED
  BY <1>1, <1>2 DEF Documented, Appended

LEMMA PostIsAside ==
  ASSUME NEW series, NEW y, NEW lines, postVerification(series, y, lines, FALSE)
  PROVE  Aside
<1> DEFINE v == [series |-> series, year |-> y, lines |-> lines, applied |-> FALSE]
<1>1. book' = Append(book, v)
  BY DEF postVerification
<1>2. ~v.applied
  OBVIOUS
<1> HIDE DEF v
<1> QED
  BY <1>1, <1>2 DEF Aside, Appended

LEMMA ManualAside == PostVerification \/ UndoVerification => Aside
  BY PostIsAside DEF PostVerification, UndoVerification

\* The voucher of the bokslut, and of a handler of a bill.
LEMMA CloseDocuments ==
  ASSUME NEW w, CloseFiscalYear(w)
  PROVE  Documented("O", task[w].year, CloseLines(TrialBalanceOfYear(task[w].year, task[w].seen)))
<1>1. postVerification("O", task[w].year, CloseLines(TrialBalanceOfYear(task[w].year, task[w].seen)), TRUE)
  BY DEF CloseFiscalYear
<1> QED
  BY <1>1, PostIsDocumented

LEMMA SupplierDocuments ==
  ASSUME NEW w
  PROVE  /\ FinalizeSupplierInvoice(w) => \E y \in Years : Documented("L", y, task[w].lines)
         /\ RecordSupplierPayment(w) => \E y \in Years : Documented("LB", y, task[w].lines)
<1>1. ASSUME FinalizeSupplierInvoice(w) PROVE \E y \in Years : Documented("L", y, task[w].lines)
  <2>1. PICK y \in Years : postVerification("L", y, task[w].lines, TRUE)
    BY <1>1 DEF FinalizeSupplierInvoice
  <2> QED
    BY <2>1, PostIsDocumented
<1>2. ASSUME RecordSupplierPayment(w) PROVE \E y \in Years : Documented("LB", y, task[w].lines)
  <2>1. PICK y \in Years : postVerification("LB", y, task[w].lines, TRUE)
    BY <1>2 DEF RecordSupplierPayment
  <2> QED
    BY <2>1, PostIsDocumented
<1> QED
  BY <1>1, <1>2

LEMMA OneMore ==
  ASSUME NEW K, NEW n, NEW ls \in Seq(Line), IsFiniteSet(K), n \notin K,
         \A k \in K : book'[k] = book[k] /\ book[k].lines \in Seq(Line),
         book'[n].lines = ls, NEW a
  PROVE  /\ TotalOn(book', K, a) = TotalOn(book, K, a)
         /\ TotalOn(book', K \cup {n}, a) = TotalOn(book, K, a) + NetOn(ls, a)
<1>1. TotalOn(book', K, a) = TotalOn(book, K, a)
  BY TotalStays
<1>2. TotalOn(book', K \cup {n}, a) = TotalOn(book, K, a) + NetOn(ls, a)
  BY TotalWith
<1> QED
  BY <1>1, <1>2

\* What a voucher adds to the balance of the documents of a series.
LEMMA VoucherAdds ==
  ASSUME TypeOK, TypeOK', NEW v, Appended(v), NEW S, NEW a
  PROVE  /\ BalanceOf(OfSeries(S), a) \in Int
         /\ BalanceOf(OfSeries(S), a)'
              = BalanceOf(OfSeries(S), a) + IF v.series \in S /\ v.applied THEN NetOn(v.lines, a) ELSE 0
<1> DEFINE n == Len(book) + 1
           K == Of(S)
           L == {k \in DOMAIN book' : book'[k].series \in S /\ book'[k].applied}
<1>1. book \in Seq(Voucher) /\ book' \in Seq(Voucher)
  BY DEF TypeOK
<1>2. /\ DOMAIN book' = DOMAIN book \cup {n} /\ n \notin DOMAIN book
      /\ book'[n] = v /\ \A k \in DOMAIN book : book'[k] = book[k]
  <2>1. DOMAIN book = 1 .. Len(book) /\ Len(book) \in Nat
    BY <1>1, SeqDomain
  <2> QED
    BY <1>1, <2>1 DEF Appended
<1>3. L = IF v.series \in S /\ v.applied THEN K \cup {n} ELSE K
  BY <1>2 DEF Of
<1>4. BalanceOf(OfSeries(S), a)' = TotalOn(book', L, a)
  <2>1. (BalanceOf(OfSeries(S), a) = TotalOn(book, Of(S), a))'
    BY OfSeriesIs, PTL
  <2>2. Of(S)' = L
    BY DEF Of
  <2> QED
    BY <2>1, <2>2
<1>5. BalanceOf(OfSeries(S), a) = TotalOn(book, K, a) /\ TotalOn(book, K, a) \in Int
  BY OfSeriesIs
<1>6. IsFiniteSet(K) /\ n \notin K /\ \A k \in K : book'[k] = book[k] /\ book[k].lines \in Seq(Line)
  BY <1>2, OfSeriesIs DEF Of
<1>7. book'[n].lines = v.lines /\ book'[n].lines \in Seq(Line)
  <2>1. book'[n] \in Voucher
    BY <1>1, <1>2, SeqDomain
  <2> QED
    BY <1>2, <2>1 DEF Voucher
<1> HIDE DEF n, K, L
<1>8. /\ TotalOn(book', K, a) = TotalOn(book, K, a)
      /\ TotalOn(book', K \cup {n}, a) = TotalOn(book, K, a) + NetOn(v.lines, a)
  <2>1. PICK ls \in Seq(Line) : book'[n].lines = ls /\ ls = v.lines
    BY <1>7
  <2>2. /\ TotalOn(book', K, a) = TotalOn(book, K, a)
        /\ TotalOn(book', K \cup {n}, a) = TotalOn(book, K, a) + NetOn(ls, a)
    BY <1>6, <2>1, OneMore
  <2> QED
    BY <2>1, <2>2
<1> QED
  BY <1>3, <1>4, <1>5, <1>8

LEMMA DocumentAdds ==
  ASSUME TypeOK, TypeOK', NEW series, NEW y, NEW lines, Documented(series, y, lines), NEW S, NEW a
  PROVE  /\ BalanceOf(OfSeries(S), a) \in Int
         /\ BalanceOf(OfSeries(S), a)' = BalanceOf(OfSeries(S), a) + IF series \in S THEN NetOn(lines, a) ELSE 0
<1>1. PICK v : Appended(v) /\ v.series = series /\ v.lines = lines /\ v.applied
  BY DEF Documented
<1> QED
  BY <1>1, VoucherAdds

LEMMA AsideAdds ==
  ASSUME TypeOK, TypeOK', Aside, NEW S, NEW a
  PROVE  BalanceOf(OfSeries(S), a)' = BalanceOf(OfSeries(S), a)
<1>1. PICK v : Appended(v) /\ ~v.applied
  BY DEF Aside
<1> QED
  BY <1>1, VoucherAdds

LEMMA BookSame ==
  ASSUME book' = book, NEW S, NEW a
  PROVE  BalanceOf(OfSeries(S), a)' = BalanceOf(OfSeries(S), a)
  BY DEF OfSeries, TrialBalance, BalanceOf, BalancesOf, AccountsIn, TotalOn

\* An invoice's voucher puts its gross on 1510 and its reversal takes it away.
LEMMA SaleNet ==
  ASSUME KnownCodes, NEW d \in Drafts
  PROVE  /\ VerificationLines(d) \in Seq(Line) /\ GrossSEK(d) \in Amount
         /\ NetOn(VerificationLines(d), 1510) = GrossSEK(d)
         /\ NetOn(ReverseLines(VerificationLines(d)), 1510) = -GrossSEK(d)
         /\ Validate(VerificationLines(d)) => GrossSEK(d) >= 0
<1> DEFINE v == VerificationLines(d)
           g == GrossSEK(d)
           r == ReverseLines(v)
<1>1. CodesOf(d) \cap Range(codeOrder) = CodesOf(d)
  BY DEF KnownCodes
<1>2. BooksSale(d)
  BY DraftsOK, VerificationLinesType
<1>3. /\ v \in Seq(Line) /\ Len(v) >= 1 /\ v[1] = Debit(1510, g) /\ g \in Amount
      /\ \A i \in 1 .. Len(v) : i > 1 => v[i].account \in SaleAccounts
  <2> DEFINE h == GrossOf(d, CodesOf(d) \cap Range(codeOrder))
  <2>1. h = g
    BY <1>1, Zenon DEF GrossSEK
  <2>2. /\ v \in Seq(Line) /\ Len(v) >= 1 /\ v[1] = Debit(1510, h) /\ h \in Amount
        /\ \A i \in 1 .. Len(v) : i > 1 => v[i].account \in SaleAccounts
    BY <1>2 DEF BooksSale
  <2> HIDE DEF h, g, v
  <2> QED
    BY <2>1, <2>2
<1> HIDE DEF v, g
<1>4. v[1].account = 1510 /\ v[1].debit = g /\ v[1].credit = 0
  BY <1>3 DEF Debit
<1>5. Len(v) \in Nat /\ 1 \in 1 .. Len(v) /\ g \in Int
  BY <1>3, SeqDomain, AmountsAre
<1>6. \A i \in 1 .. Len(v) : v[i].account = 1510 => i = 1
  BY <1>3, <1>5 DEF SaleAccounts
<1>7. NetOn(v, 1510) = g
  <2>1. NetOn(v, 1510) = v[1].debit - v[1].credit
    BY <1>3, <1>4, <1>5, <1>6, NetOnOne
  <2> QED
    BY <1>4, <1>5, <2>1
<1>8. /\ r \in Seq(Line) /\ Len(r) = Len(v)
      /\ \A i \in 1 .. Len(v) : r[i].account = v[i].account /\ r[i].debit = v[i].credit /\ r[i].credit = v[i].debit
  BY <1>3, ReverseType, ReverseSwaps
<1> HIDE DEF r
<1>9. NetOn(r, 1510) = -g
  <2>1. r[1].account = 1510 /\ r[1].debit = 0 /\ r[1].credit = g /\ 1 \in 1 .. Len(r)
    BY <1>4, <1>5, <1>8
  <2>2. \A i \in 1 .. Len(r) : r[i].account = 1510 => i = 1
    BY <1>6, <1>8
  <2>3. NetOn(r, 1510) = r[1].debit - r[1].credit
    BY <1>8, <2>1, <2>2, NetOnOne
  <2> QED
    BY <1>5, <2>1, <2>3
<1>10. Validate(v) => g >= 0
  BY <1>4, <1>5 DEF Validate, WellFormed
<1> QED
  BY <1>3, <1>7, <1>9, <1>10 DEF v, g, r

LEMMA ReceivableType ==
  ASSUME SoundInv, NEW i \in Inv
  PROVE  Receivable(i) \in Int
<1>1. sale[i] \in Sale /\ sale[i].paid \in Nat
  BY DEF SoundInv, TypeOK, Sale
<1>2. sale[i].status # "none" => GrossSEK(sale[i].says) \in Int
  <2> SUFFICES ASSUME sale[i].status # "none" PROVE GrossSEK(sale[i].says) \in Int
    OBVIOUS
  <2>1. sale[i].says \in Drafts
    BY DEF SoundInv, SaysKnown
  <2>2. GrossSEK(sale[i].says) \in Amount
    BY <2>1, DraftsOK, GrossType DEF GrossSEK
  <2> QED
    BY <2>2, AmountsAre
<1> QED
  BY <1>1, <1>2 DEF Receivable

ReceivablesTyped == \A i \in Inv : Receivable(i) \in Int

LEMMA ReceivableTypes == SoundInv => ReceivablesTyped
  BY ReceivableType DEF ReceivablesTyped

Receivables == SumFunction([i \in Inv |-> Receivable(i)])

\* What the change of one invoice does to the sum.
LEMMA ReceivablesChange ==
  ASSUME SoundInv, SoundInv', NEW i \in Inv, \A j \in Inv : j # i => sale'[j] = sale[j]
  PROVE  /\ Receivable(i) \in Int /\ Receivable(i)' \in Int /\ Receivables \in Int
         /\ Receivables' = Receivables - Receivable(i) + Receivable(i)'
<1> DEFINE f == [j \in Inv |-> Receivable(j)]
           g == [j \in Inv |-> Receivable(j)']
<1>1. \A j \in Inv : Receivable(j) \in Int
  BY ReceivableType
<1>2. \A j \in Inv : Receivable(j)' \in Int
  <2>1. ReceivablesTyped'
    BY ReceivableTypes, PTL
  <2> QED
    BY <2>1 DEF ReceivablesTyped
<1>3. \A j \in Inv : j # i => Receivable(j)' = Receivable(j)
  BY DEF Receivable
<1>4. f \in [Inv -> Int] /\ g \in [Inv -> Int]
  BY <1>1, <1>2
<1>5. \A j \in Inv : j # i => g[j] = f[j]
  BY <1>3
<1>6. f[i] = Receivable(i) /\ g[i] = Receivable(i)'
  OBVIOUS
<1>7. Receivables = SumFunction(f) /\ Receivables' = SumFunction(g)
  BY DEF Receivables
<1>8. IsFiniteSet(Inv)
  BY BooksAssumption
<1> HIDE DEF f, g
<1>9. SumFunction(g) = SumFunction(f) - f[i] + g[i]
  BY <1>4, <1>5, <1>8, SumChange
<1>10. SumFunction(f) \in Int
  BY <1>4, <1>8, SumFunctionType
<1> QED
  BY <1>1, <1>2, <1>6, <1>7, <1>9, <1>10

LEMMA ReceivablesSame ==
  ASSUME sale' = sale
  PROVE  Receivables' = Receivables
  BY DEF Receivables, Receivable

Booked1510 == BalanceOf(OfSeries({"F", "B"}), 1510)

LEMMA ReceivablesTieIs == ReceivablesTie <=> (astray = {} => Booked1510 = Receivables)
  BY DEF ReceivablesTie, Booked1510, Receivables

LEMMA Document1510 ==
  ASSUME SoundInv, SoundInv', NEW series, NEW y, NEW lines, Documented(series, y, lines)
  PROVE  /\ Booked1510 \in Int
         /\ Booked1510' = Booked1510 + IF series \in {"F", "B"} THEN NetOn(lines, 1510) ELSE 0
<1>1. TypeOK /\ TypeOK'
  BY DEF SoundInv
<1> QED
  BY <1>1, DocumentAdds DEF Booked1510

\* An invoice whose row is as it should be.
LEMMA RowMoves ==
  ASSUME SoundInv, SalesInv, NEW i \in Inv, NEW row, sale' = [sale EXCEPT ![i] = row], RowSound(row)
  PROVE  SalesInv'
<1>1. sale \in [Inv -> Sale]
  BY DEF SoundInv, TypeOK
<1>2. sale'[i] = row /\ \A j \in Inv : j # i => sale'[j] = sale[j]
  BY <1>1
<1>3. \A j \in Inv : RowSound(sale'[j])
  BY <1>2 DEF SalesInv
<1> QED
  BY <1>3 DEF SalesInv, RowSound

\* What the handlers of invoices write.
LEMMA IssuedRow ==
  ASSUME SoundInv, NEW w \in Worker, FinalizeInvoice(w) \/ CreditInvoice(w)
  PROVE  \/ sale' = sale /\ Aside
         \/ /\ FinalizeInvoice(w)
            /\ \E i \in Inv, y \in Years :
                  /\ sale[i].status = "draft"
                  /\ sale' = [sale EXCEPT ![i] = [sale[i] EXCEPT !.status = "finalized"]]
                  /\ Documented("F", y, VerificationLines(sale[i].says))
         \/ /\ CreditInvoice(w)
            /\ \E i \in Inv, y \in Years :
                  /\ sale[i].status \in {"finalized", "paid"}
                  /\ sale' = [sale EXCEPT ![i] = [sale[i] EXCEPT !.status = "credited"]]
                  /\ Documented("F", y, ReverseLines(VerificationLines(sale[i].says)))
<1>1. PICK i \in Inv : i = task[w].inv
  BY TaskType DEF FinalizeInvoice, CreditInvoice, SoundInv
<1>2. sale \in [Inv -> Sale] /\ \A st : [sale EXCEPT ![i].status = st] = [sale EXCEPT ![i] = [sale[i] EXCEPT !.status = st]]
  BY DEF SoundInv, TypeOK
<1>3. CASE FinalizeInvoice(w)
  <2>1. CASE sale[i].status = "draft"
    <3>1. /\ sale' = [sale EXCEPT ![i].status = "finalized"]
          /\ \E y \in Years : postVerification("F", y, VerificationLines(sale[i].says), sale[i].status = "draft")
      BY <1>1, <1>3, <2>1 DEF FinalizeInvoice
    <3>2. (sale[i].status = "draft") = TRUE
      BY <2>1
    <3>3. \E y \in Years : postVerification("F", y, VerificationLines(sale[i].says), TRUE)
      BY <3>1, <3>2, Zenon
    <3>4. \E y \in Years : Documented("F", y, VerificationLines(sale[i].says))
      BY <3>3, PostIsDocumented
    <3> QED
      BY <1>2, <1>3, <2>1, <3>1, <3>4, Zenon
  <2>2. CASE sale[i].status # "draft"
    <3>1. /\ sale' = sale
          /\ \E y \in Years : postVerification("F", y, VerificationLines(sale[i].says), sale[i].status = "draft")
      BY <1>1, <1>3, <2>2 DEF FinalizeInvoice
    <3>2. (sale[i].status = "draft") = FALSE
      BY <2>2
    <3>3. \E y \in Years : postVerification("F", y, VerificationLines(sale[i].says), FALSE)
      BY <3>1, <3>2, Zenon
    <3>4. Aside
      BY <3>3, PostIsAside
    <3> QED
      BY <3>1, <3>4
  <2> QED
    BY <2>1, <2>2
<1>4. CASE CreditInvoice(w)
  <2> DEFINE found == sale[i].status \in {"finalized", "paid"}
             lines == ReverseLines(VerificationLines(sale[i].says))
  <2>1. CASE found
    <3>1. /\ sale' = [sale EXCEPT ![i].status = "credited"]
          /\ \E y \in Years : postVerification("F", y, lines, found)
      BY <1>1, <1>4, <2>1 DEF CreditInvoice
    <3>2. found = TRUE
      BY <2>1
    <3>3. \E y \in Years : postVerification("F", y, lines, TRUE)
      BY <3>1, <3>2, Zenon
    <3>4. \E y \in Years : Documented("F", y, lines)
      BY <3>3, PostIsDocumented
    <3> QED
      BY <1>2, <1>4, <2>1, <3>1, <3>4, Zenon
  <2>2. CASE ~found
    <3>1. sale' = sale /\ \E y \in Years : postVerification("F", y, lines, found)
      BY <1>1, <1>4, <2>2 DEF CreditInvoice
    <3>2. found = FALSE
      BY <2>2
    <3>3. \E y \in Years : postVerification("F", y, lines, FALSE)
      BY <3>1, <3>2, Zenon
    <3>4. Aside
      BY <3>3, PostIsAside
    <3> QED
      BY <3>1, <3>4
  <2> QED
    BY <2>1, <2>2
<1> QED
  BY <1>3, <1>4

\* What a payment writes: invoice i takes a sum on the amount paid that its
\* handler read, settles with s or not.
PaidWith(i, sum, paid, s, row) ==
  /\ s = SettlementOf(i, paid, sum)
  /\ s.take /\ s.full \in BOOLEAN /\ (s.full => sale[i].status = "finalized")
  /\ sale[i].status \in Issued /\ sale[i].says \in Drafts
  /\ sum \in Amount /\ sum > 0 /\ paid \in Nat /\ paid <= sale[i].paid /\ sale[i].paid + sum <= MaxAmount
  /\ row.paid = sale[i].paid + sum /\ row.says = sale[i].says
  /\ row.settled = (sale[i].settled \/ s.full)
  /\ row.status = IF s.full THEN "paid" ELSE sale[i].status
  /\ sale' = [sale EXCEPT ![i] = row]
  /\ \E y \in Years : Documented("B", y, s.lines)
  /\ astray' = IF (s.full /\ sale[i].paid # paid) \/ (~s.full /\ sale[i].settled)
               THEN astray \cup {i} ELSE astray

LEMMA PaymentRow ==
  ASSUME SoundInv, NEW w \in Worker, RecordPayment(w)
  PROVE  \E i \in Inv : \E sum, paid, s, row : PaidWith(i, sum, paid, s, row)
<1> DEFINE i == task[w].inv
           sum == task[w].amount
           paid == task[w].paid
           s == SettlementOf(i, paid, sum)
           row == [sale[i] EXCEPT !.paid = @ + sum, !.settled = @ \/ s.full,
                                  !.status = IF s.full THEN "paid" ELSE @]
<1>1. task[w].step = "settle"
  BY DEF RecordPayment
<1>2. i \in Inv /\ sum \in Payments /\ paid \in 0 .. MaxAmount
  BY <1>1, TaskType DEF SoundInv
<1>3. sale[i].status \in Issued /\ sum > 0 /\ paid <= sale[i].paid /\ s.take
  BY <1>1 DEF SoundInv, TasksSound, TaskSound
<1>4. sum \in Amount /\ paid \in Nat
  BY <1>2, BooksAssumption, AmountsAre
<1>5. sale[i].says \in Drafts /\ GrossSEK(sale[i].says) \in Amount
  BY <1>2, <1>3, SaleLines DEF SoundInv, Issued
<1>6. s.full \in BOOLEAN
  BY <1>4, <1>5, SettlementType DEF SettlementOf
<1>7. sale \in [Inv -> Sale] /\ sale[i] \in Sale
  BY <1>2 DEF SoundInv, TypeOK
<1>8. /\ \E y \in Years : postVerification("B", y, s.lines, TRUE)
      /\ sale[i].paid + sum <= MaxAmount
      /\ s.full => sale[i].status = "finalized"
      /\ sale' = [sale EXCEPT ![i].paid = @ + sum, ![i].settled = @ \/ s.full,
                             ![i].status = IF s.full THEN "paid" ELSE @]
      /\ astray' = IF (s.full /\ sale[i].paid # paid) \/ (~s.full /\ sale[i].settled)
                   THEN astray \cup {i} ELSE astray
  BY DEF RecordPayment
<1> HIDE DEF s, sum, paid, i
<1>13. \E y \in Years : Documented("B", y, s.lines)
  BY <1>8, PostIsDocumented
<1>9. sale' = [sale EXCEPT ![i] = row]
  BY <1>2, <1>7, <1>8
<1>10. /\ row.paid = sale[i].paid + sum /\ row.says = sale[i].says
       /\ row.settled = (sale[i].settled \/ s.full)
       /\ row.status = IF s.full THEN "paid" ELSE sale[i].status
  BY <1>7 DEF Sale
<1> HIDE DEF row
<1>11. s = SettlementOf(i, paid, sum)
  BY DEF s
<1>12. PaidWith(i, sum, paid, s, row)
  BY <1>3, <1>4, <1>5, <1>6, <1>8, <1>9, <1>10, <1>11, <1>13 DEF PaidWith
<1> QED
  BY <1>2, <1>12

LEMMA SalesStep ==
  ASSUME SoundInv, SalesInv, [Next]_vars
  PROVE  SalesInv'
<1>1. CASE sale' = sale
  BY <1>1 DEF SalesInv
<1>2. CASE CreateInvoice
  <2>1. PICK i \in Inv, d \in Drafts :
               sale[i].status = "none" /\ sale' = [sale EXCEPT ![i].status = "draft", ![i].says = d]
    BY <1>2 DEF CreateInvoice
  <2> DEFINE row == [sale[i] EXCEPT !.status = "draft", !.says = d]
  <2>2. sale[i] \in Sale /\ sale \in [Inv -> Sale]
    BY DEF SoundInv, TypeOK
  <2>3. sale' = [sale EXCEPT ![i] = row]
    BY <2>1, <2>2
  <2>4. row.status = "draft" /\ row.paid = sale[i].paid /\ row.settled = sale[i].settled
    BY <2>2 DEF Sale
  <2> HIDE DEF row
  <2>5. RowSound(row)
    BY <2>1, <2>4 DEF SalesInv, RowSound, Issued
  <2> QED
    BY <2>3, <2>5, RowMoves
<1>3. CASE DeleteDraftInvoice
  <2>1. PICK i \in Inv : sale[i].status = "draft" /\ sale' = [sale EXCEPT ![i].status = "deleted"]
    BY <1>3 DEF DeleteDraftInvoice
  <2> DEFINE row == [sale[i] EXCEPT !.status = "deleted"]
  <2>2. sale[i] \in Sale /\ sale \in [Inv -> Sale]
    BY DEF SoundInv, TypeOK
  <2>3. sale' = [sale EXCEPT ![i] = row]
    BY <2>1, <2>2
  <2>4. row.status = "deleted" /\ row.paid = sale[i].paid /\ row.settled = sale[i].settled
    BY <2>2 DEF Sale
  <2> HIDE DEF row
  <2>5. RowSound(row)
    BY <2>1, <2>4 DEF SalesInv, RowSound, Issued
  <2> QED
    BY <2>3, <2>5, RowMoves
<1>4. ASSUME NEW i \in Inv, NEW st \in {"finalized", "credited"},
             st = "finalized" => sale[i].status = "draft",
             sale' = [sale EXCEPT ![i] = [sale[i] EXCEPT !.status = st]],
             Validate(VerificationLines(sale[i].says))
      PROVE  SalesInv'
  <2> DEFINE row == [sale[i] EXCEPT !.status = st]
  <2>1. sale[i] \in Sale
    BY DEF SoundInv, TypeOK
  <2>2. row.status = st /\ row.says = sale[i].says /\ row.settled = sale[i].settled
    BY <2>1 DEF Sale
  <2>3. sale' = [sale EXCEPT ![i] = row]
    BY <1>4
  <2> HIDE DEF row
  <2>4. RowSound(row)
    BY <1>4, <2>2 DEF SalesInv, RowSound, Issued
  <2> QED
    BY <2>3, <2>4, RowMoves
<1>5. ASSUME NEW w \in Worker, FinalizeInvoice(w) \/ CreditInvoice(w) PROVE SalesInv'
  <2>1. ASSUME NEW i \in Inv, NEW y, sale[i].status = "draft",
               sale' = [sale EXCEPT ![i] = [sale[i] EXCEPT !.status = "finalized"]],
               Documented("F", y, VerificationLines(sale[i].says))
        PROVE  SalesInv'
    <3>1. Validate(VerificationLines(sale[i].says))
      BY <2>1 DEF Documented
    <3> QED
      BY <1>4, <2>1, <3>1
  <2>2. ASSUME NEW i \in Inv, sale[i].status \in {"finalized", "paid"},
               sale' = [sale EXCEPT ![i] = [sale[i] EXCEPT !.status = "credited"]]
        PROVE  SalesInv'
    <3>1. Validate(VerificationLines(sale[i].says))
      BY <2>2 DEF SalesInv, RowSound, Issued
    <3> QED
      BY <1>4, <2>2, <3>1
  <2> QED
    BY <1>1, <1>5, <2>1, <2>2, IssuedRow
<1>6. ASSUME NEW w \in Worker, RecordPayment(w) PROVE SalesInv'
  <2>1. PICK i \in Inv : \E sum, paid, s, row : PaidWith(i, sum, paid, s, row)
    BY <1>6, PaymentRow
  <2>2. PICK sum, paid, s, row : PaidWith(i, sum, paid, s, row)
    BY <2>1
  <2>3. sale' = [sale EXCEPT ![i] = row]
    BY <2>2 DEF PaidWith
  <2>4. RowSound(row)
    <3>1. /\ s.full => sale[i].status = "finalized"
          /\ sale[i].status \in Issued /\ row.says = sale[i].says
          /\ row.settled = (sale[i].settled \/ s.full)
          /\ row.status = IF s.full THEN "paid" ELSE sale[i].status
      BY <2>2 DEF PaidWith
    <3>2. /\ Validate(VerificationLines(sale[i].says))
          /\ sale[i].status = "finalized" => ~sale[i].settled
          /\ sale[i].status = "paid" => sale[i].settled
      BY <3>1 DEF SalesInv, RowSound
    <3> QED
      BY <3>1, <3>2 DEF RowSound, Issued
  <2> QED
    BY <2>3, <2>4, RowMoves
<1> QED
  BY <1>1, <1>2, <1>3, <1>5, <1>6, Steps, Untouched DEF Quiet

\* Invoice i becomes row, and 1510 changes by what the customer owes for it.
RowBooked(i, row) ==
  /\ sale' = [sale EXCEPT ![i] = row]
  /\ Booked1510 \in Int /\ Booked1510' = Booked1510 - Receivable(i) + Receivable(i)'

LEMMA SaleMoves ==
  ASSUME SoundInv, SoundInv', astray = {}, ReceivablesTie, NEW i \in Inv, NEW row, RowBooked(i, row)
  PROVE  ReceivablesTie'
<1>0. /\ sale' = [sale EXCEPT ![i] = row]
      /\ Booked1510 \in Int /\ Booked1510' = Booked1510 - Receivable(i) + Receivable(i)'
  BY DEF RowBooked
<1>1. sale \in [Inv -> Sale]
  BY DEF SoundInv, TypeOK
<1>2. \A j \in Inv : j # i => sale'[j] = sale[j]
  BY <1>0, <1>1
<1>3. Booked1510 = Receivables
  BY ReceivablesTieIs
<1>4. /\ Receivable(i) \in Int /\ Receivable(i)' \in Int /\ Receivables \in Int
      /\ Receivables' = Receivables - Receivable(i) + Receivable(i)'
  BY <1>2, ReceivablesChange
<1>5. Booked1510' = Receivables'
  BY <1>0, <1>3, <1>4
<1> QED
  BY <1>5 DEF ReceivablesTie, Booked1510, Receivables

LEMMA SaleStays ==
  ASSUME astray = {}, ReceivablesTie, sale' = sale, Booked1510' = Booked1510
  PROVE  ReceivablesTie'
<1>1. Booked1510' = Receivables'
  BY ReceivablesSame, ReceivablesTieIs
<1> QED
  BY <1>1 DEF ReceivablesTie, Booked1510, Receivables

LEMMA FinalizeTies ==
  ASSUME KnownCodes, SoundInv, SoundInv', SalesInv, astray = {}, ReceivablesTie,
         NEW i \in Inv, NEW y \in Years, sale[i].status = "draft",
         sale' = [sale EXCEPT ![i] = [sale[i] EXCEPT !.status = "finalized"]],
         Documented("F", y, VerificationLines(sale[i].says))
  PROVE  ReceivablesTie'
<1> DEFINE row == [sale[i] EXCEPT !.status = "finalized"]
           g == GrossSEK(sale[i].says)
<1>1. sale[i] \in Sale /\ sale \in [Inv -> Sale] /\ sale[i].says \in Drafts
  BY SaleLines DEF SoundInv, TypeOK
<1>2. sale' = [sale EXCEPT ![i] = row] /\ sale'[i] = row
  BY <1>1
<1>3. row.status = "finalized" /\ row.paid = sale[i].paid /\ row.says = sale[i].says
  BY <1>1 DEF Sale
<1> HIDE DEF row
<1>4. row.paid = 0
  BY <1>3 DEF SalesInv, RowSound
<1>5. NetOn(VerificationLines(sale[i].says), 1510) = g /\ g \in Int
  BY <1>1, SaleNet, AmountsAre
<1>6. Receivable(i) = 0 /\ Receivable(i)' = g
  <2>1. Receivable(i)' = GrossSEK(row.says) - row.paid
    BY <1>2, <1>3 DEF Receivable
  <2>2. Receivable(i) = 0
    BY DEF Receivable
  <2> QED
    BY <1>3, <1>4, <1>5, <2>1, <2>2
<1>7. Booked1510' = Booked1510 + g /\ Booked1510 \in Int
  BY <1>5, Document1510
<1>8. Booked1510' = Booked1510 - Receivable(i) + Receivable(i)'
  BY <1>5, <1>6, <1>7
<1>9. RowBooked(i, row)
  BY <1>2, <1>7, <1>8 DEF RowBooked
<1> QED
  BY <1>9, SaleMoves, Zenon

LEMMA CreditTies ==
  ASSUME KnownCodes, SoundInv, SoundInv', SalesInv, astray = {}, ReceivablesTie,
         NEW i \in Inv, NEW y \in Years, sale[i].status \in {"finalized", "paid"},
         sale' = [sale EXCEPT ![i] = [sale[i] EXCEPT !.status = "credited"]],
         Documented("F", y, ReverseLines(VerificationLines(sale[i].says)))
  PROVE  ReceivablesTie'
<1> DEFINE row == [sale[i] EXCEPT !.status = "credited"]
           g == GrossSEK(sale[i].says)
           paid == sale[i].paid
<1>1. sale[i] \in Sale /\ sale \in [Inv -> Sale] /\ sale[i].says \in Drafts /\ paid \in Int
  BY SaleLines, AmountsAre DEF SoundInv, TypeOK, Sale
<1>2. sale' = [sale EXCEPT ![i] = row] /\ sale'[i] = row
  BY <1>1
<1>3. /\ row.status = "credited" /\ row.paid = paid /\ row.settled = sale[i].settled
      /\ row.says = sale[i].says
  BY <1>1 DEF Sale
<1> HIDE DEF row
<1>4. sale[i].settled <=> sale[i].status = "paid"
  BY DEF SalesInv, RowSound
<1>5. NetOn(ReverseLines(VerificationLines(sale[i].says)), 1510) = -g /\ g \in Int
  BY <1>1, SaleNet, AmountsAre
<1>6. Booked1510' = Booked1510 - g /\ Booked1510 \in Int
  BY <1>5, Document1510
<1>7. Receivable(i)' = -(IF row.settled THEN GrossSEK(row.says) ELSE row.paid)
  BY <1>2, <1>3 DEF Receivable
<1>8. Booked1510' = Booked1510 - Receivable(i) + Receivable(i)'
  <2>1. CASE sale[i].status = "paid"
    <3>1. Receivable(i) = 0
      BY <2>1 DEF Receivable
    <3>2. Receivable(i)' = -g
      BY <1>3, <1>4, <1>7, <2>1
    <3> QED
      BY <1>5, <1>6, <3>1, <3>2
  <2>2. CASE sale[i].status = "finalized"
    <3>1. Receivable(i) = g - paid
      BY <2>2 DEF Receivable
    <3>2. Receivable(i)' = -paid
      BY <1>3, <1>4, <1>7, <2>2
    <3> QED
      BY <1>1, <1>5, <1>6, <3>1, <3>2
  <2> QED
    BY <2>1, <2>2
<1>9. RowBooked(i, row)
  BY <1>2, <1>6, <1>8 DEF RowBooked
<1> QED
  BY <1>9, SaleMoves, Zenon

\* A payment that does not go past another one clears what it should: one that
\* settles all that was left, an instalment its own amount.
LEMMA PaymentTies ==
  ASSUME KnownCodes, SoundInv, SoundInv', SalesInv, astray = {}, astray' = {}, ReceivablesTie,
         NEW i \in Inv, NEW sum, NEW paid, NEW s, NEW row, PaidWith(i, sum, paid, s, row)
  PROVE  ReceivablesTie'
<1> DEFINE g == GrossSEK(sale[i].says)
           before == sale[i].paid
<1>1. /\ s = SettlementOf(i, paid, sum) /\ s.take /\ s.full \in BOOLEAN
      /\ s.full => sale[i].status = "finalized"
      /\ sale[i].status \in Issued /\ sale[i].says \in Drafts
      /\ sum \in Amount /\ sum > 0 /\ paid \in Nat /\ paid <= before /\ before + sum <= MaxAmount
      /\ row.paid = before + sum /\ row.says = sale[i].says
      /\ row.settled = (sale[i].settled \/ s.full)
      /\ row.status = IF s.full THEN "paid" ELSE sale[i].status
      /\ sale' = [sale EXCEPT ![i] = row]
  BY DEF PaidWith
<1>2. PICK y \in Years : Documented("B", y, s.lines)
  BY DEF PaidWith
<1>3. (s.full => before = paid) /\ (~s.full => ~sale[i].settled)
  BY DEF PaidWith
<1>4. sale \in [Inv -> Sale] /\ sale[i] \in Sale /\ before \in Nat
  BY AmountsAre DEF SoundInv, TypeOK, Sale
<1>5. sale'[i] = row
  BY <1>1, <1>4
<1>6. /\ Validate(VerificationLines(sale[i].says))
      /\ sale[i].status = "paid" => sale[i].settled
  BY <1>1 DEF SalesInv, RowSound
<1>7. g \in Amount /\ g >= 0 /\ g \in Int /\ sum \in Int /\ MaxAmount \in Nat
  BY <1>1, <1>6, SaleNet, AmountsAre
<1> HIDE DEF g, before
<1>8. paid + sum <= MaxAmount
  BY <1>1, <1>4, <1>7
<1>9. /\ s.full => NetOn(s.lines, 1510) = paid - g
      /\ ~s.full => NetOn(s.lines, 1510) = -sum
  BY <1>1, <1>7, <1>8, SettlementType DEF SettlementOf, g
<1>10. Booked1510' = Booked1510 + NetOn(s.lines, 1510) /\ Booked1510 \in Int
  BY <1>2, Document1510
<1>11. /\ sale[i].status = "finalized" => Receivable(i) = g - before
       /\ sale[i].status = "credited" /\ ~sale[i].settled => Receivable(i) = -before
  BY DEF Receivable, g, before
<1>12. /\ row.status = "finalized" => Receivable(i)' = g - row.paid
       /\ row.status = "credited" /\ ~row.settled => Receivable(i)' = -row.paid
       /\ row.status = "paid" => Receivable(i)' = 0
  BY <1>1, <1>5 DEF Receivable, g
<1>13. Booked1510' = Booked1510 - Receivable(i) + Receivable(i)'
  <2>1. CASE s.full
    <3>1. row.status = "paid" /\ sale[i].status = "finalized" /\ before = paid
      BY <1>1, <1>3, <2>1
    <3>2. Receivable(i) = g - paid /\ Receivable(i)' = 0 /\ NetOn(s.lines, 1510) = paid - g
      BY <1>9, <1>11, <1>12, <2>1, <3>1
    <3> QED
      BY <1>1, <1>7, <1>10, <3>2
  <2>2. CASE ~s.full
    <3>1. row.status = sale[i].status /\ ~sale[i].settled /\ ~row.settled /\ NetOn(s.lines, 1510) = -sum
      BY <1>1, <1>3, <1>9, <2>2
    <3>2. CASE sale[i].status = "finalized"
      <4>1. Receivable(i) = g - before /\ Receivable(i)' = g - (before + sum)
        BY <1>1, <1>11, <1>12, <3>1, <3>2
      <4> QED
        BY <1>4, <1>7, <1>10, <3>1, <4>1
    <3>3. CASE sale[i].status = "credited"
      <4>1. Receivable(i) = -before /\ Receivable(i)' = -(before + sum)
        BY <1>1, <1>11, <1>12, <3>1, <3>3
      <4> QED
        BY <1>4, <1>7, <1>10, <3>1, <4>1
    <3> QED
      BY <1>1, <1>6, <3>1, <3>2, <3>3 DEF Issued
  <2> QED
    BY <2>1, <2>2
<1>14. RowBooked(i, row)
  BY <1>1, <1>10, <1>13 DEF RowBooked
<1> QED
  BY <1>14, SaleMoves, Zenon

\* An invoice that has not been issued owes nothing, whatever its row says.
LEMMA DraftTies ==
  ASSUME SoundInv, SoundInv', astray = {}, ReceivablesTie, CreateInvoice \/ DeleteDraftInvoice
  PROVE  ReceivablesTie'
<1>1. PICK i \in Inv : /\ sale[i].status \in {"none", "draft"} /\ sale'[i].status \in {"draft", "deleted"}
                       /\ \A j \in Inv : j # i => sale'[j] = sale[j]
  <2>1. sale \in [Inv -> Sale]
    BY DEF SoundInv, TypeOK
  <2>2. CASE CreateInvoice
    <3>1. PICK i \in Inv, d \in Drafts :
                 sale[i].status = "none" /\ sale' = [sale EXCEPT ![i].status = "draft", ![i].says = d]
      BY <2>2 DEF CreateInvoice
    <3>2. sale'[i] = [sale[i] EXCEPT !.status = "draft", !.says = d] /\ sale[i] \in Sale
      BY <2>1, <3>1
    <3>3. sale'[i].status = "draft"
      BY <3>2 DEF Sale
    <3>4. \A j \in Inv : j # i => sale'[j] = sale[j]
      BY <2>1, <3>1
    <3> QED
      BY <3>1, <3>3, <3>4
  <2>3. CASE DeleteDraftInvoice
    <3>1. PICK i \in Inv : sale[i].status = "draft" /\ sale' = [sale EXCEPT ![i].status = "deleted"]
      BY <2>3 DEF DeleteDraftInvoice
    <3>2. sale'[i] = [sale[i] EXCEPT !.status = "deleted"] /\ sale[i] \in Sale
      BY <2>1, <3>1
    <3>3. sale'[i].status = "deleted"
      BY <3>2 DEF Sale
    <3>4. \A j \in Inv : j # i => sale'[j] = sale[j]
      BY <2>1, <3>1
    <3> QED
      BY <3>1, <3>3, <3>4
  <2> QED
    BY <2>2, <2>3
<1>2. Receivable(i) = 0 /\ Receivable(i)' = 0
  BY <1>1 DEF Receivable
<1>3. Receivables' = Receivables - Receivable(i) + Receivable(i)' /\ Receivables \in Int
  BY <1>1, ReceivablesChange
<1>4. Receivables' = Receivables
  BY <1>2, <1>3
<1>5. Booked1510' = Booked1510
  BY Untouched, BookSame DEF Booked1510
<1>6. Booked1510 = Receivables
  BY ReceivablesTieIs
<1> QED
  BY <1>4, <1>5, <1>6 DEF ReceivablesTie, Booked1510, Receivables

LEMMA ReceivablesStep ==
  ASSUME KnownCodes, SoundInv, SoundInv', SalesInv, ReceivablesTie, [Next]_vars
  PROVE  ReceivablesTie'
<1>0. SUFFICES ASSUME astray' = {} PROVE ReceivablesTie'
  BY DEF ReceivablesTie
<1>1. astray = {}
  <2>1. ASSUME NEW w \in Worker, RecordPayment(w) PROVE astray \subseteq astray'
    BY <2>1 DEF RecordPayment
  <2> QED
    BY <1>0, <2>1, Steps, Untouched DEF Quiet, history
<1>2. ASSUME book' = book, sale' = sale PROVE ReceivablesTie'
  <2>1. Booked1510' = Booked1510
    BY <1>2, BookSame DEF Booked1510
  <2> QED
    BY <1>1, <1>2, <2>1, SaleStays
<1>3. ASSUME sale' = sale, NEW series, NEW y, NEW lines, Documented(series, y, lines), series \notin {"F", "B"}
      PROVE  ReceivablesTie'
  <2>1. Booked1510' = Booked1510
    BY <1>3, Document1510
  <2> QED
    BY <1>1, <1>3, <2>1, SaleStays
<1>4. ASSUME Aside, sale' = sale PROVE ReceivablesTie'
  <2>1. Booked1510' = Booked1510
    BY <1>4, AsideAdds DEF Booked1510, SoundInv
  <2> QED
    BY <1>1, <1>4, <2>1, SaleStays
<1>5. ASSUME NEW w \in Worker, CloseFiscalYear(w) PROVE ReceivablesTie'
  <2>1. \E y, lines : Documented("O", y, lines) /\ "O" \notin {"F", "B"}
    BY <1>5, CloseDocuments
  <2>2. sale' = sale
    BY <1>5, Untouched
  <2> QED
    BY <1>3, <2>1, <2>2
<1>6. ASSUME NEW w \in Worker, FinalizeSupplierInvoice(w) \/ RecordSupplierPayment(w) PROVE ReceivablesTie'
  <2>1. \/ \E y \in Years : Documented("L", y, task[w].lines)
        \/ \E y \in Years : Documented("LB", y, task[w].lines)
    BY <1>6, SupplierDocuments
  <2>2. sale' = sale
    BY <1>6, Untouched
  <2> QED
    BY <1>3, <2>1, <2>2
<1>7. ASSUME NEW w \in Worker, FinalizeInvoice(w) \/ CreditInvoice(w) PROVE ReceivablesTie'
  BY <1>1, <1>4, <1>7, IssuedRow, FinalizeTies, CreditTies
<1>8. ASSUME NEW w \in Worker, RecordPayment(w) PROVE ReceivablesTie'
  <2>1. PICK i \in Inv : \E sum, paid, s, row : PaidWith(i, sum, paid, s, row)
    BY <1>8, PaymentRow
  <2> QED
    BY <1>0, <1>1, <2>1, PaymentTies
<1> QED
  BY <1>1, <1>2, <1>4, <1>5, <1>6, <1>7, <1>8, DraftTies, ManualAside, Steps, Untouched DEF Quiet

Booked2440 == BalanceOf(OfSeries({"L", "LB"}), 2440)

Payables == SumFunction([b \in Bill |-> Owed(b)])

Debt(b) == Payable(bill[b].net, bill[b].code)

LEMMA DebtType ==
  ASSUME SoundInv, NEW b \in Bill
  PROVE  Debt(b) \in Amount /\ Debt(b) \in Int /\ Owed(b) \in Int
<1>1. bill[b].net \in Amount /\ CostAccount \in Nat
  BY BillNet, BooksAssumption DEF SoundInv
<1>2. Debt(b) \in Amount
  BY <1>1, PurchaseLinesType DEF Debt
<1>3. Debt(b) \in Int
  BY <1>2, AmountsAre
<1> QED
  BY <1>2, <1>3 DEF Owed, Debt

OwedTyped == \A b \in Bill : Owed(b) \in Int

LEMMA OwedTypes == SoundInv => OwedTyped
  BY DebtType DEF OwedTyped

LEMMA PayablesChange ==
  ASSUME SoundInv, SoundInv', NEW b \in Bill, \A c \in Bill : c # b => bill'[c] = bill[c]
  PROVE  /\ Owed(b) \in Int /\ Owed(b)' \in Int /\ Payables \in Int
         /\ Payables' = Payables - Owed(b) + Owed(b)'
<1> DEFINE f == [c \in Bill |-> Owed(c)]
           g == [c \in Bill |-> Owed(c)']
<1>1. \A c \in Bill : Owed(c) \in Int
  BY DebtType
<1>2. \A c \in Bill : Owed(c)' \in Int
  <2>1. OwedTyped'
    BY OwedTypes, PTL
  <2> QED
    BY <2>1 DEF OwedTyped
<1>3. \A c \in Bill : c # b => Owed(c)' = Owed(c)
  BY DEF Owed
<1>4. f \in [Bill -> Int] /\ g \in [Bill -> Int]
  BY <1>1, <1>2
<1>5. \A c \in Bill : c # b => g[c] = f[c]
  BY <1>3
<1>6. f[b] = Owed(b) /\ g[b] = Owed(b)'
  OBVIOUS
<1>7. Payables = SumFunction(f) /\ Payables' = SumFunction(g)
  BY DEF Payables
<1>8. IsFiniteSet(Bill)
  BY BooksAssumption
<1> HIDE DEF f, g
<1>9. SumFunction(g) = SumFunction(f) - f[b] + g[b]
  BY <1>4, <1>5, <1>8, SumChange
<1>10. SumFunction(f) \in Int
  BY <1>4, <1>8, SumFunctionType
<1> QED
  BY <1>1, <1>2, <1>6, <1>7, <1>9, <1>10

LEMMA Document2440 ==
  ASSUME SoundInv, SoundInv', NEW series, NEW y, NEW lines, Documented(series, y, lines)
  PROVE  /\ Booked2440 \in Int
         /\ Booked2440' = Booked2440 + IF series \in {"L", "LB"} THEN NetOn(lines, 2440) ELSE 0
<1>1. TypeOK /\ TypeOK'
  BY DEF SoundInv
<1> QED
  BY <1>1, DocumentAdds DEF Booked2440

LEMMA BillsStay ==
  ASSUME PayablesTie, bill' = bill, Booked2440' = Booked2440
  PROVE  PayablesTie'
<1>1. Payables' = Payables
  BY DEF Payables, Owed
<1> QED
  BY <1>1 DEF PayablesTie, Payables, Booked2440

\* A bill that has been entered never says anything else.
LEMMA BillsKeep ==
  ASSUME SoundInv, [Next]_vars, NEW b \in Bill, bill[b].status # "none"
  PROVE  bill'[b].status # "none" /\ bill'[b].net = bill[b].net /\ bill'[b].code = bill[b].code
<1>1. bill \in [Bill -> BillRow] /\ bill[b] \in BillRow
  BY DEF SoundInv, TypeOK
<1>2. CASE CreateSupplierInvoice
  BY <1>1, <1>2 DEF CreateSupplierInvoice
<1>3. ASSUME NEW w \in Worker, FinalizeSupplierInvoice(w) \/ RecordSupplierPayment(w)
      PROVE  bill'[b].status # "none" /\ bill'[b].net = bill[b].net /\ bill'[b].code = bill[b].code
  <2>1. PICK to \in {"finalized", "paid"} : bill' = [bill EXCEPT ![task[w].bill].status = to]
    BY <1>3 DEF FinalizeSupplierInvoice, RecordSupplierPayment, SetBill
  <2>2. CASE b # task[w].bill
    BY <1>1, <2>1, <2>2
  <2>3. CASE b = task[w].bill
    <3>1. PICK r \in BillRow : r = bill[b]
      BY <1>1
    <3>2. bill'[b] = [r EXCEPT !.status = to]
      BY <1>1, <2>1, <2>3, <3>1
    <3>3. bill'[b].status = to /\ bill'[b].net = r.net /\ bill'[b].code = r.code
      BY <3>2 DEF BillRow
    <3> QED
      BY <3>1, <3>3
  <2> QED
    BY <2>2, <2>3
<1>4. CASE bill' = bill
  BY <1>4
<1> QED
  BY <1>2, <1>3, <1>4, Steps, Untouched DEF Quiet

\* The handlers that have read a bill keep agreeing with it.
LEMMA BillsInvStep ==
  ASSUME CostIsNoDebt, SoundInv, SoundInv', BillsInv, [Next]_vars
  PROVE  BillsInv'
<1> DEFINE Agrees(t) ==
             t.step \in {"finalize", "pay"} =>
               /\ bill'[t.bill].status # "none"
               /\ NetOn(t.lines, 2440)
                    = IF t.step = "finalize" THEN -Payable(bill'[t.bill].net, bill'[t.bill].code)
                      ELSE Payable(bill'[t.bill].net, bill'[t.bill].code)
<1>1. SUFFICES ASSUME NEW w \in Worker PROVE Agrees(task'[w])
  <2>1. \A w \in Worker : Agrees(task'[w])
    BY <1>1
  <2> QED
    BY <2>1 DEF BillsInv, BillSound
<1>2. ASSUME NEW t \in Task, BillSound(t) PROVE Agrees(t)
  <2>1. SUFFICES ASSUME t.step \in {"finalize", "pay"} PROVE Agrees(t)
    OBVIOUS
  <2>2. t.bill \in Bill
    BY <1>2, <2>1 DEF Task, Idle
  <2>3. bill[t.bill].status # "none"
    BY <1>2, <2>1 DEF BillSound
  <2>4. /\ bill'[t.bill].status # "none" /\ bill'[t.bill].net = bill[t.bill].net
        /\ bill'[t.bill].code = bill[t.bill].code
    BY <2>2, <2>3, BillsKeep
  <2> QED
    BY <1>2, <2>1, <2>4 DEF BillSound
<1>3. CASE task'[w] = Idle
  BY <1>3 DEF Idle
<1>4. CASE task'[w] = task[w]
  <2>1. PICK t \in Task : t = task[w]
    BY DEF SoundInv, TypeOK
  <2>2. BillSound(t)
    BY <2>1 DEF BillsInv
  <2>3. Agrees(t)
    BY <1>2, <2>2
  <2> QED
    BY <1>4, <2>1, <2>3
<1>5. ASSUME NEW v \in Worker, ReadDraftBill(v), task'[w] # task[w] PROVE Agrees(task'[w])
  <2>1. PICK b \in Bill :
               /\ bill[b].status = "draft"
               /\ reads(v, [step |-> "finalize", bill |-> b,
                            lines |-> PurchaseLines(CostAccount, bill[b].net, bill[b].code)])
    BY <1>5 DEF ReadDraftBill
  <2>2. bill' = bill /\ bill[b].net \in Amount /\ CostAccount \in Nat
    BY <2>1, BillNet, BooksAssumption DEF SoundInv, reads
  <2>3. NetOn(PurchaseLines(CostAccount, bill[b].net, bill[b].code), 2440) = -Payable(bill[b].net, bill[b].code)
    BY <2>2, PurchaseLinesType DEF CostIsNoDebt
  <2>4. task'[w] = [step |-> "finalize", bill |-> b,
                    lines |-> PurchaseLines(CostAccount, bill[b].net, bill[b].code)]
    BY <1>5, <2>1 DEF reads, SoundInv, TypeOK
  <2> QED
    BY <2>1, <2>2, <2>3, <2>4
<1>6. ASSUME NEW v \in Worker, ReadOpenBill(v), task'[w] # task[w] PROVE Agrees(task'[w])
  <2>1. PICK b \in Bill, sum \in Payments :
               /\ bill[b].status = "finalized"
               /\ reads(v, [step |-> "pay", bill |-> b,
                            lines |-> SupplierPaymentLines(Payable(bill[b].net, bill[b].code), sum)])
    BY <1>6 DEF ReadOpenBill
  <2>2. bill' = bill /\ Payable(bill[b].net, bill[b].code) \in Amount /\ sum \in Amount
    BY <2>1, DebtType, BooksAssumption DEF reads, Debt
  <2>3. NetOn(SupplierPaymentLines(Payable(bill[b].net, bill[b].code), sum), 2440)
          = Payable(bill[b].net, bill[b].code)
    BY <2>2, SupplierPaymentLinesType
  <2>4. task'[w] = [step |-> "pay", bill |-> b,
                    lines |-> SupplierPaymentLines(Payable(bill[b].net, bill[b].code), sum)]
    BY <1>6, <2>1 DEF reads, SoundInv, TypeOK
  <2> QED
    BY <2>1, <2>2, <2>3, <2>4
<1>7. ASSUME NEW v \in Worker, ReadYear(v) \/ ReadDraftInvoice(v) \/ ReadCreditable(v) \/ ReadPayable(v),
             task'[w] # task[w]
      PROVE  Agrees(task'[w])
  <2>1. task \in [Worker -> Task]
    BY DEF SoundInv, TypeOK
  <2>2. task'[w].step \notin {"finalize", "pay"}
    BY <1>7, <2>1 DEF ReadYear, ReadDraftInvoice, ReadCreditable, ReadPayable, reads
  <2> QED
    BY <2>2
<1>8. ASSUME NEW v \in Worker, Fail(v) PROVE task'[w] = task[w] \/ task'[w] = Idle
  BY <1>8 DEF Fail, done, SoundInv, TypeOK
<1> HIDE DEF Agrees
<1>9. ASSUME NEW v \in Worker, Looks(v) PROVE Agrees(task'[w])
  BY <1>3, <1>4, <1>5, <1>6, <1>7, <1>8, <1>9 DEF Looks
<1>10. CASE \A v \in Worker : ~Looks(v)
  <2>1. task'[w] = task[w] \/ task'[w] = Idle
    <3>1. ASSUME NEW v \in Worker,
                 \/ CloseFiscalYear(v) \/ FinalizeInvoice(v) \/ CreditInvoice(v) \/ RecordPayment(v)
                 \/ FinalizeSupplierInvoice(v) \/ RecordSupplierPayment(v)
          PROVE  task'[w] = task[w] \/ task'[w] = Idle
      <4>1. task' = [task EXCEPT ![v] = Idle] /\ task \in [Worker -> Task]
        BY <3>1 DEF CloseFiscalYear, FinalizeInvoice, CreditInvoice, RecordPayment, FinalizeSupplierInvoice,
           RecordSupplierPayment, done, SoundInv, TypeOK
      <4> QED
        BY <4>1
    <3> QED
      BY <1>10, <3>1, Steps, Untouched
  <2> QED
    BY <1>3, <1>4, <2>1
<1> QED
  BY <1>9, <1>10

\* A handler that commits moves its bill, and 2440 with it.
LEMMA BillMoves ==
  ASSUME SoundInv, SoundInv', BillsInv, PayablesTie, NEW w \in Worker,
         FinalizeSupplierInvoice(w) \/ RecordSupplierPayment(w)
  PROVE  PayablesTie'
<1> DEFINE ls == task[w].lines
<1>1. task[w].step \in {"finalize", "pay"} /\ task[w] \in Task
  BY DEF FinalizeSupplierInvoice, RecordSupplierPayment, SoundInv, TypeOK
<1>2. PICK b \in Bill : task[w].bill = b
  BY <1>1, TaskType DEF SoundInv
<1>3. bill \in [Bill -> BillRow] /\ bill[b] \in BillRow
  BY DEF SoundInv, TypeOK
<1>4. Debt(b) \in Int
  BY DebtType
<1>5. NetOn(ls, 2440) = IF task[w].step = "finalize" THEN -Debt(b) ELSE Debt(b)
  BY <1>1, <1>2 DEF BillsInv, BillSound, Debt
<1>6. \/ \E y \in Years : Documented("L", y, ls)
      \/ \E y \in Years : Documented("LB", y, ls)
  BY SupplierDocuments
<1>7. Booked2440' = Booked2440 + NetOn(ls, 2440) /\ Booked2440 \in Int
  BY <1>6, Document2440
<1>8. \A c \in Bill : c # b => bill'[c] = bill[c]
  BY <1>2, <1>3 DEF FinalizeSupplierInvoice, RecordSupplierPayment, SetBill
<1>9. /\ Owed(b) \in Int /\ Owed(b)' \in Int /\ Payables \in Int
      /\ Payables' = Payables - Owed(b) + Owed(b)'
  BY <1>8, PayablesChange
<1>10. -Booked2440 = Payables
  BY DEF PayablesTie, Booked2440, Payables
<1>11. CASE FinalizeSupplierInvoice(w)
  <2>1. Owed(b) = 0 /\ Owed(b)' = Debt(b)
    BY <1>2, <1>3, <1>11 DEF FinalizeSupplierInvoice, SetBill, Owed, Debt, BillRow
  <2>2. NetOn(ls, 2440) = -Debt(b)
    BY <1>5, <1>11 DEF FinalizeSupplierInvoice
  <2>3. -Booked2440' = Payables'
    BY <1>4, <1>7, <1>9, <1>10, <2>1, <2>2
  <2> QED
    BY <2>3 DEF PayablesTie, Booked2440, Payables
<1>12. CASE RecordSupplierPayment(w)
  <2>1. Owed(b) = Debt(b) /\ Owed(b)' = 0
    BY <1>2, <1>3, <1>12 DEF RecordSupplierPayment, SetBill, Owed, Debt, BillRow
  <2>2. NetOn(ls, 2440) = Debt(b)
    BY <1>5, <1>12 DEF RecordSupplierPayment
  <2>3. -Booked2440' = Payables'
    BY <1>4, <1>7, <1>9, <1>10, <2>1, <2>2
  <2> QED
    BY <2>3 DEF PayablesTie, Booked2440, Payables
<1> QED
  BY <1>11, <1>12

LEMMA PayablesStep ==
  ASSUME SoundInv, SoundInv', BillsInv, PayablesTie, [Next]_vars
  PROVE  PayablesTie'
<1>1. ASSUME book' = book, bill' = bill PROVE PayablesTie'
  <2>1. Booked2440' = Booked2440
    BY <1>1, BookSame DEF Booked2440
  <2> QED
    BY <1>1, <2>1, BillsStay
<1>2. ASSUME bill' = bill, NEW series, NEW y, NEW lines, Documented(series, y, lines), series \notin {"L", "LB"}
      PROVE  PayablesTie'
  <2>1. Booked2440' = Booked2440
    BY <1>2, Document2440
  <2> QED
    BY <1>2, <2>1, BillsStay
<1>3. ASSUME Aside, bill' = bill PROVE PayablesTie'
  <2>1. Booked2440' = Booked2440
    BY <1>3, AsideAdds DEF Booked2440, SoundInv
  <2> QED
    BY <1>3, <2>1, BillsStay
<1>4. ASSUME NEW w \in Worker, CloseFiscalYear(w) PROVE PayablesTie'
  <2>1. \E y, lines : Documented("O", y, lines) /\ "O" \notin {"L", "LB"}
    BY <1>4, CloseDocuments
  <2> QED
    BY <1>2, <1>4, <2>1, Untouched
<1>5. ASSUME NEW w \in Worker, FinalizeInvoice(w) \/ CreditInvoice(w) PROVE PayablesTie'
  <2>1. bill' = bill
    BY <1>5, Untouched
  <2>2. CASE Aside
    BY <1>3, <2>1, <2>2
  <2>3. CASE \E y, lines : Documented("F", y, lines)
    BY <1>2, <2>1, <2>3
  <2> QED
    BY <1>5, <2>2, <2>3, IssuedRow
<1>6. ASSUME NEW w \in Worker, RecordPayment(w) PROVE PayablesTie'
  <2>1. PICK i \in Inv : \E sum, paid, s, row : PaidWith(i, sum, paid, s, row)
    BY <1>6, PaymentRow
  <2>2. \E y, lines : Documented("B", y, lines)
    BY <2>1 DEF PaidWith
  <2> QED
    BY <1>2, <1>6, <2>2, Untouched
<1>7. CASE CreateSupplierInvoice
  <2>1. PICK b \in Bill, p \in Purchases :
               /\ bill[b].status = "none"
               /\ bill' = [bill EXCEPT ![b] = [status |-> "draft", net |-> p.net, code |-> p.code]]
    BY <1>7 DEF CreateSupplierInvoice
  <2>2. bill \in [Bill -> BillRow] /\ TypeOK
    BY DEF SoundInv, TypeOK
  <2>3. bill'[b].status = "draft" /\ \A c \in Bill : c # b => bill'[c] = bill[c]
    BY <2>1, <2>2
  <2>4. Owed(b) = 0 /\ Owed(b)' = 0
    BY <2>1, <2>3 DEF Owed
  <2>5. Payables' = Payables - Owed(b) + Owed(b)' /\ Payables \in Int
    BY <2>3, PayablesChange
  <2>6. Payables' = Payables
    BY <2>4, <2>5
  <2>7. Booked2440' = Booked2440
    BY <1>7, Untouched, BookSame DEF Booked2440
  <2> QED
    BY <2>6, <2>7 DEF PayablesTie, Booked2440, Payables
<1> QED
  BY <1>1, <1>3, <1>4, <1>5, <1>6, <1>7, BillMoves, ManualAside, Steps, Untouched DEF Quiet

TieInv == SoundInv /\ SalesInv /\ BillsInv /\ ReceivablesTie /\ PayablesTie

LEMMA TieInit ==
  ASSUME Init
  PROVE  TieInv
<1>1. SoundInv
  BY SoundInit
<1>2. SalesInv /\ BillsInv
  BY DEF Init, SalesInv, RowSound, Issued, BillsInv, BillSound, Idle
<1>3. \A S, a : BalanceOf(OfSeries(S), a) = 0
  <2> SUFFICES ASSUME NEW S, NEW a PROVE BalanceOf(OfSeries(S), a) = 0
    OBVIOUS
  <2>1. DOMAIN book = {}
    BY EmptyBook
  <2>2. OfSeries(S) = BalancesOf(book, {})
    BY <2>1 DEF OfSeries, TrialBalance
  <2>3. AccountsIn(book, {}) = {}
    BY DEF AccountsIn
  <2>4. DOMAIN OfSeries(S) = {}
    BY <2>2, <2>3 DEF BalancesOf
  <2> QED
    BY <2>4 DEF BalanceOf
<1>4. Receivables = 0
  <2> DEFINE f == [i \in Inv |-> Receivable(i)]
  <2>1. DOMAIN f = Inv /\ \A i \in Inv : f[i] = 0
    BY DEF Init, Receivable
  <2>2. Receivables = SumFunction(f) /\ IsFiniteSet(Inv)
    BY BooksAssumption DEF Receivables
  <2> HIDE DEF f
  <2> QED
    BY <2>1, <2>2, SumZero DEF SumFunction
<1>5. Payables = 0
  <2> DEFINE f == [b \in Bill |-> Owed(b)]
  <2>1. DOMAIN f = Bill /\ \A b \in Bill : f[b] = 0
    BY DEF Init, Owed
  <2>2. Payables = SumFunction(f) /\ IsFiniteSet(Bill)
    BY BooksAssumption DEF Payables
  <2> HIDE DEF f
  <2> QED
    BY <2>1, <2>2, SumZero DEF SumFunction
<1>6. ReceivablesTie
  BY <1>3, <1>4 DEF ReceivablesTie, Receivables
<1>7. PayablesTie
  <2>1. Booked2440 \in Int /\ Booked2440 <= 0 /\ Booked2440 >= 0
    BY <1>3 DEF Booked2440
  <2>2. -Booked2440 = 0
    BY <2>1
  <2> QED
    BY <1>5, <2>2 DEF PayablesTie, Payables, Booked2440
<1> QED
  BY <1>1, <1>2, <1>6, <1>7 DEF TieInv

LEMMA TieStep ==
  ASSUME KnownCodes, CostIsNoDebt, TieInv, [Next]_vars
  PROVE  TieInv'
<1>1. SoundInv /\ SalesInv /\ BillsInv /\ ReceivablesTie /\ PayablesTie
  BY DEF TieInv
<1>2. SoundInv'
  BY <1>1, SoundStep
<1>3. SalesInv' /\ ReceivablesTie'
  BY <1>1, <1>2, SalesStep, ReceivablesStep
<1>4. BillsInv'
  BY <1>1, <1>2, BillsInvStep
<1>5. PayablesTie'
  BY <1>1, <1>2, PayablesStep
<1> QED
  BY <1>2, <1>3, <1>4, <1>5 DEF TieInv

\* Both sub-ledgers agree with their control accounts at every moment, for any
\* mix of instalments, write-offs, currency differences, credits, hand-written
\* vouchers of any series and concurrent handlers of the same document, as long
\* as invoices bear the codes the form offers and bills are not booked as costs
\* on 2440 itself; 1510 until two payments of an invoice go past each other.
THEOREM ReskontraAlwaysTies ==
  ASSUME KnownCodes, CostIsNoDebt
  PROVE  Spec => []ReskontraTies
<1>1. Init => TieInv
  BY TieInit
<1>2. TieInv /\ [Next]_vars => TieInv'
  BY TieStep
<1>3. TieInv => ReskontraTies
  BY DEF TieInv, ReskontraTies
<1> QED
  BY <1>1, <1>2, <1>3, PTL DEF Spec

-----------------------------------------------------------------------------
(* The bokslut                                                             *)

InYear(y) == {k \in DOMAIN book : book[k].year = y}

\* A bokslut voucher belongs to a closed year.
CloseInv == \A k \in DOMAIN book : book[k].series = "O" /\ book[k].applied => book[k].year \in closed

\* CloseZeroesYear over all accounts, with lines in the year or without.
YearsZero ==
  \A y \in closed \ missed :
    ClosedAndLeft(y) /\ OnlyBokslut(y) => \A a \in Nat : IsResult(a) => TotalOn(book, InYear(y), a) = 0

LEMMA YearsZeroSuffices ==
  ASSUME SoundInv, YearsZero
  PROVE  CloseZeroesYear
<1> SUFFICES ASSUME NEW y \in closed \ missed, ClosedAndLeft(y), OnlyBokslut(y),
                    NEW a \in DOMAIN TrialBalance(LAMBDA v : v.year = y), IsResult(a)
             PROVE  TrialBalance(LAMBDA v : v.year = y)[a] = 0
  BY DEF CloseZeroesYear, ZeroInYear
<1>1. TrialBalance(LAMBDA v : v.year = y) = BalancesOf(book, InYear(y))
  BY DEF TrialBalance, InYear
<1>2. IsFiniteSet(InYear(y)) /\ \A k \in InYear(y) : book[k].lines \in Seq(Line)
  BY BookType, FS_Subset DEF InYear, SoundInv
<1>3. a \in AccountsIn(book, InYear(y)) /\ BalancesOf(book, InYear(y))[a] = TotalOn(book, InYear(y), a)
  BY <1>1 DEF BalancesOf
<1>4. a \in Nat
  BY <1>2, <1>3, AccountsInType
<1> QED
  BY <1>1, <1>3, <1>4 DEF YearsZero

\* The book after a posting.
LEMMA AppendedBook ==
  ASSUME SoundInv, SoundInv', NEW v, Appended(v)
  PROVE  LET n == Len(book) + 1
         IN  /\ DOMAIN book = 1 .. Len(book) /\ Len(book) \in Nat /\ Len(book') = n
             /\ DOMAIN book' = DOMAIN book \cup {n} /\ n \notin DOMAIN book
             /\ book'[n] = v /\ \A k \in DOMAIN book : book'[k] = book[k]
             /\ v.lines \in Seq(Line)
<1>1. book \in Seq(Voucher) /\ book' \in Seq(Voucher) /\ book' = Append(book, v)
  BY DEF SoundInv, TypeOK, Appended
<1>2. /\ DOMAIN book = 1 .. Len(book) /\ Len(book) \in Nat /\ Len(book') = Len(book) + 1
      /\ DOMAIN book' = DOMAIN book \cup {Len(book) + 1}
      /\ book'[Len(book) + 1] = v /\ \A k \in DOMAIN book : book'[k] = book[k]
  BY <1>1, SeqDomain
<1>3. v \in Voucher
  BY <1>1, <1>2, SeqDomain
<1> QED
  BY <1>2, <1>3 DEF Voucher

\* A year that has a posting added after its bokslut is no longer left alone;
\* one that is left alone keeps its balance.
LEMMA LeftAlone ==
  ASSUME SoundInv, SoundInv', YearsZero, NEW v, Appended(v),
         NEW z \in closed \ missed, ClosedAndLeft(z)', OnlyBokslut(z)',
         ~(v.series = "O" /\ v.applied) \/ z # v.year
  PROVE  \A a \in Nat : IsResult(a) => (TotalOn(book, InYear(z), a))' = 0
<1> DEFINE n == Len(book) + 1
           y == v.year
<1>2. /\ DOMAIN book = 1 .. Len(book) /\ Len(book) \in Nat /\ Len(book') = n
      /\ DOMAIN book' = DOMAIN book \cup {n} /\ n \notin DOMAIN book
      /\ book'[n] = v /\ \A k \in DOMAIN book : book'[k] = book[k]
  BY AppendedBook
<1>3. PICK k \in DOMAIN book' : /\ book'[k].series = "O" /\ book'[k].year = z /\ book'[k].applied
                                /\ \A j \in k + 1 .. Len(book') : book'[j].year # z
  BY DEF ClosedAndLeft
<1>4. k # n
  BY <1>2, <1>3
<1>5. k \in DOMAIN book /\ k < n
  BY <1>2, <1>4
<1>6. y # z
  <2>1. n \in k + 1 .. Len(book')
    BY <1>2, <1>5
  <2> QED
    BY <1>2, <1>3, <2>1
<1>7. ClosedAndLeft(z) /\ OnlyBokslut(z)
  <2>1. \A j \in k + 1 .. Len(book) : j \in k + 1 .. Len(book') /\ j \in DOMAIN book
    BY <1>2, <1>5
  <2>2. \A j \in k + 1 .. Len(book) : book[j].year # z
    BY <1>2, <1>3, <2>1
  <2>3. OnlyBokslut(z)
    BY <1>2 DEF OnlyBokslut
  <2> QED
    BY <1>2, <1>3, <1>5, <2>2, <2>3 DEF ClosedAndLeft
<1>8. InYear(z)' = InYear(z) /\ n \notin InYear(z)
  <2> HIDE DEF n
  <2> QED
    BY <1>2, <1>6 DEF InYear
<1>9. IsFiniteSet(InYear(z)) /\ \A j \in InYear(z) : book'[j] = book[j] /\ book[j].lines \in Seq(Line)
  BY <1>2, BookType, FS_Subset DEF InYear, SoundInv
<1> HIDE DEF n, y
<1>10. ASSUME NEW a PROVE TotalOn(book', InYear(z), a) = TotalOn(book, InYear(z), a)
  <2>1. PICK K, ws : K = InYear(z) /\ ws = book'
    OBVIOUS
  <2>2. IsFiniteSet(K)
    BY <1>9, <2>1
  <2>3. \A j \in K : ws[j] = book[j] /\ book[j].lines \in Seq(Line)
    BY <1>9, <2>1
  <2>4. TotalOn(ws, K, a) = TotalOn(book, K, a)
    BY <2>2, <2>3, TotalStays
  <2> QED
    BY <2>1, <2>4
<1> QED
  BY <1>7, <1>8, <1>10 DEF YearsZero

\* Whoever does not close a year writes no bokslut.
LEMMA NoBokslut ==
  ASSUME [Next]_vars, \A w \in Worker : ~CloseFiscalYear(w)
  PROVE  /\ closed' = closed /\ missed' = missed
         /\ book' = book \/ \E v : Appended(v) /\ ~(v.series = "O" /\ v.applied)
<1> DEFINE Grows == \E v : Appended(v) /\ ~(v.series = "O" /\ v.applied)
<1>1. Aside => Grows
  BY DEF Aside
<1>2. ASSUME NEW series \in {"F", "B", "L", "LB"}, NEW y, NEW lines, NEW applied,
             postVerification(series, y, lines, applied)
      PROVE  Grows
  <2>1. PICK v : v = [series |-> series, year |-> y, lines |-> lines, applied |-> applied]
    OBVIOUS
  <2>2. Appended(v) /\ v.series # "O"
    BY <1>2, <2>1 DEF postVerification, Appended
  <2> QED
    BY <2>2
<1>3. ASSUME NEW w \in Worker, FinalizeInvoice(w) PROVE Grows
  <2>1. \E y, lines, applied : postVerification("F", y, lines, applied)
    BY <1>3 DEF FinalizeInvoice
  <2> QED
    BY <1>2, <2>1
<1>4. ASSUME NEW w \in Worker, CreditInvoice(w) PROVE Grows
  <2>1. \E y, lines, applied : postVerification("F", y, lines, applied)
    BY <1>4 DEF CreditInvoice
  <2> QED
    BY <1>2, <2>1
<1>5. ASSUME NEW w \in Worker, RecordPayment(w) PROVE Grows
  <2>1. \E y, lines, applied : postVerification("B", y, lines, applied)
    BY <1>5 DEF RecordPayment
  <2> QED
    BY <1>2, <2>1
<1>6. ASSUME NEW w \in Worker, FinalizeSupplierInvoice(w) \/ RecordSupplierPayment(w) PROVE Grows
  <2>1. \E series \in {"L", "LB"} : \E y, lines, applied : postVerification(series, y, lines, applied)
    BY <1>6 DEF FinalizeSupplierInvoice, RecordSupplierPayment
  <2> QED
    BY <1>2, <2>1
<1>7. PostVerification \/ UndoVerification => Grows
  BY <1>1, ManualAside
<1> HIDE DEF Grows
<1>8. closed' = closed /\ missed' = missed /\ (book' = book \/ Grows)
  BY <1>3, <1>4, <1>5, <1>6, <1>7, Steps, Untouched DEF Quiet, history
<1> QED
  BY <1>8 DEF Grows

\* A bokslut whose trial balance was that of its year leaves zero.
LEMMA BokslutZeroes ==
  ASSUME SoundInv, SoundInv', CloseInv, NEW w \in Worker, CloseFiscalYear(w),
         ~Late(task[w].year, task[w].seen),
         \A k \in DOMAIN book' : book'[k].series = "O" /\ book'[k].year = task[w].year => book'[k].applied,
         NEW a, IsResult(a)
  PROVE  TotalOn(book', {k \in DOMAIN book' : book'[k].year = task[w].year}, a) = 0
<1> DEFINE y == task[w].year
           m == task[w].seen
           tb == TrialBalanceOfYear(y, m)
           ls == CloseLines(tb)
           n == Len(book) + 1
           K == OfYear(y, m)
<1>1. y \in Years /\ m \in Nat /\ m <= Len(book) /\ SumsFit(tb) /\ y \notin closed
  BY TaskType DEF CloseFiscalYear, SoundInv, TasksSound, TaskSound
<1>2. Validate(ls) /\ \E v : Appended(v) /\ v.series = "O" /\ v.year = y /\ v.lines = ls /\ v.applied
  BY CloseDocuments DEF Documented
<1>3. /\ tb = BalancesOf(book, K) /\ IsFiniteSet(K)
      /\ \A k \in K : k \in DOMAIN book /\ book[k].lines \in Seq(Line)
      /\ IsFiniteSet(DOMAIN tb) /\ DOMAIN tb \subseteq Nat
  BY <1>1, YearBalance DEF SoundInv
<1>4. \A b \in DOMAIN tb : tb[b] \in Amount
  BY <1>1 DEF SumsFit
<1> HIDE DEF ls
<1>4a. PICK v : Appended(v) /\ v.series = "O" /\ v.year = y /\ v.lines = ls /\ v.applied
  BY <1>2
<1>5. /\ DOMAIN book = 1 .. Len(book) /\ Len(book) \in Nat
      /\ DOMAIN book' = DOMAIN book \cup {n} /\ n \notin DOMAIN book
      /\ book'[n] = v /\ \A k \in DOMAIN book : book'[k] = book[k]
  BY <1>4a, AppendedBook
<1> HIDE DEF tb
<1>6. ls \in Seq(Line) /\ \A b : IsResult(b) => NetOn(ls, b) = -BalanceOf(tb, b)
  <2>1. CloseLines(tb) \in Seq(Line) /\ \A b : IsResult(b) => NetOn(CloseLines(tb), b) = -BalanceOf(tb, b)
    <3>1. Validate(CloseLines(tb))
      BY <1>2 DEF ls
    <3> QED
      BY <1>3, <1>4, <3>1, CloseLinesType
  <2> QED
    BY <2>1 DEF ls
<1>7. \A k \in DOMAIN book : book[k].year = y => book[k].series # "O"
  BY <1>1, <1>5 DEF CloseInv
<1>8. \A k \in DOMAIN book : book[k].year = y => k \in K
  <2> SUFFICES ASSUME NEW k \in DOMAIN book, book[k].year = y PROVE k \in K
    OBVIOUS
  <2>1. book[k].series # "O"
    BY <1>7
  <2>2. k \notin m + 1 .. Len(book)
    BY <2>1 DEF Late
  <2>3. k \in 1 .. m
    BY <1>1, <1>5, <2>2
  <2> QED
    BY <2>1, <2>3 DEF OfYear
<1>9. {k \in DOMAIN book' : book'[k].year = y} = K \cup {n} /\ n \notin K
  <2>1. \A k \in K : k \in DOMAIN book /\ book[k].year = y
    BY <1>3 DEF OfYear
  <2> HIDE DEF K, n, y
  <2> QED
    BY <1>5, <1>8, <1>4a, <2>1
<1> HIDE DEF K, n, y
<1>10. \A k \in K : book'[k] = book[k] /\ book[k].lines \in Seq(Line)
  BY <1>3, <1>5
<1>11. TotalOn(book', K \cup {n}, a) = TotalOn(book, K, a) + NetOn(ls, a)
  <2>1. PICK s \in Seq(Line) : s = ls
    BY <1>6
  <2>2. book'[n].lines = s
    BY <1>5, <1>4a, <2>1
  <2>3. IsFiniteSet(K) /\ n \notin K
    BY <1>3, <1>9
  <2>4. TotalOn(book', K \cup {n}, a) = TotalOn(book, K, a) + NetOn(s, a)
    BY <1>10, <2>2, <2>3, OneMore
  <2> QED
    BY <2>1, <2>4
<1>12. BalanceOf(tb, a) = TotalOn(book, K, a) /\ TotalOn(book, K, a) \in Int
  BY <1>3, BalanceIsTotal, TotalOnType
<1>13. TotalOn(book', K \cup {n}, a) = 0
  BY <1>6, <1>11, <1>12
<1> QED
  BY <1>9, <1>13 DEF y

LEMMA CloseStep ==
  ASSUME SoundInv, SoundInv', CloseInv, YearsZero, [Next]_vars
  PROVE  CloseInv' /\ YearsZero'
<1>1. CASE book' = book /\ closed' = closed /\ missed' = missed
  BY <1>1 DEF CloseInv, YearsZero, ClosedAndLeft, OnlyBokslut, InYear
<1>2. ASSUME closed' = closed, missed' = missed, NEW v, Appended(v), ~(v.series = "O" /\ v.applied)
      PROVE  CloseInv' /\ YearsZero'
  <2>1. CloseInv'
    BY <1>2, AppendedBook DEF CloseInv
  <2>2. ASSUME NEW z \in closed \ missed, ClosedAndLeft(z)', OnlyBokslut(z)'
        PROVE  \A a \in Nat : IsResult(a) => (TotalOn(book, InYear(z), a))' = 0
    BY <1>2, <2>2, LeftAlone
  <2>3. YearsZero'
    BY <1>2, <2>2 DEF YearsZero
  <2> QED
    BY <2>1, <2>3
<1>3. ASSUME NEW w \in Worker, CloseFiscalYear(w) PROVE CloseInv' /\ YearsZero'
  <2>1. PICK y : y = task[w].year
    OBVIOUS
  <2>2. /\ closed' = closed \cup {y}
        /\ missed' = IF Late(y, task[w].seen) THEN missed \cup {y} ELSE missed
    BY <1>3, <2>1 DEF CloseFiscalYear
  <2>3. PICK v : Appended(v) /\ v.year = y
    BY <1>3, <2>1, CloseDocuments DEF Documented
  <2>4. CloseInv'
    BY <2>2, <2>3, AppendedBook DEF CloseInv
  <2>5. ASSUME y \notin missed', OnlyBokslut(y)', NEW a, IsResult(a) PROVE (TotalOn(book, InYear(y), a))' = 0
    <3>1. ~Late(y, task[w].seen)
      BY <2>2, <2>5
    <3>2. TotalOn(book', {k \in DOMAIN book' : book'[k].year = y}, a) = 0
      <4>1. \A k \in DOMAIN book' : book'[k].series = "O" /\ book'[k].year = y => book'[k].applied
        BY <2>5 DEF OnlyBokslut
      <4> QED
        BY <1>3, <2>1, <2>5, <3>1, <4>1, BokslutZeroes
    <3> QED
      BY <3>2 DEF InYear
  <2>6. ASSUME NEW z \in closed \ missed, ClosedAndLeft(z)', OnlyBokslut(z)', z # y
        PROVE  \A a \in Nat : IsResult(a) => (TotalOn(book, InYear(z), a))' = 0
    BY <2>3, <2>6, LeftAlone
  <2>7. YearsZero'
    BY <2>2, <2>5, <2>6 DEF YearsZero
  <2> QED
    BY <2>4, <2>7
<1> QED
  BY <1>1, <1>2, <1>3, NoBokslut

YearEndInv == SoundInv /\ CloseInv /\ YearsZero

\* The bokslut leaves every result account of its year at zero for as long as
\* nothing is posted in the year again, whatever the order in which years are
\* read, closed and unlocked: in every closed year no voucher of which came
\* between its trial balance and its transaction, and in whose series O nobody
\* has typed a voucher.
THEOREM ClosedYearsAreZero == Spec => []CloseZeroesYear
<1>1. Init => YearEndInv
  <2> SUFFICES ASSUME Init PROVE YearEndInv
    OBVIOUS
  <2>1. SoundInv
    BY SoundInit
  <2>2. DOMAIN book = {} /\ closed = {}
    BY EmptyBook DEF Init
  <2> QED
    BY <2>1, <2>2 DEF YearEndInv, CloseInv, YearsZero
<1>2. YearEndInv /\ [Next]_vars => YearEndInv'
  BY SoundStep, CloseStep DEF YearEndInv
<1>3. YearEndInv => CloseZeroesYear
  BY YearsZeroSuffices DEF YearEndInv
<1> QED
  BY <1>1, <1>2, <1>3, PTL DEF Spec

-----------------------------------------------------------------------------
(* The result row of the balance sheet                                     *)

\* The lines of a voucher one by one: what they add to an account.
LEMMA NetOnSum ==
  ASSUME NEW s \in Seq(Line), NEW a
  PROVE  NetOn(s, a) = SumFunction([i \in DOMAIN s |-> On(s[i], a)])
<1> DEFINE D == DOMAIN s
           S == {j \in D : s[j].account = a}
           f == [i \in S |-> s[i].debit - s[i].credit]
           g == [i \in D |-> On(s[i], a)]
<1>1. IsFiniteSet(D) /\ \A i \in D : s[i] \in Line
  BY SeqDomain
<1>2. IsFiniteSet(S) /\ S \subseteq D
  BY <1>1, FS_Subset
<1>3. DOMAIN f = S /\ DOMAIN g = D /\ NetOn(s, a) = SumFunction(f)
  BY DEF NetOn
<1>4. \A i \in D : g[i] \in Int
  BY <1>1, OnType
<1>5. (\A i \in D \ S : g[i] = 0) /\ \A i \in S : f[i] = g[i]
  BY DEF On
<1>6. (\A i \in S : g[i] \in Int) /\ g = [i \in DOMAIN s |-> On(s[i], a)]
  BY <1>2, <1>4
<1> HIDE DEF D, S, f, g
<1>7. SumFunctionOnSet(g, D) = SumFunctionOnSet(g, S)
  BY <1>1, <1>2, <1>5, <1>6, SumPad
<1>8. SumFunctionOnSet(f, S) = SumFunctionOnSet(g, S)
  BY <1>2, <1>5, <1>6, SumSame
<1>9. SumFunction(f) = SumFunction(g)
  BY <1>3, <1>7, <1>8 DEF SumFunction
<1> QED
  BY <1>3, <1>6, <1>9, Zenon

\* One line, over all accounts.
LEMMA OnSum ==
  ASSUME NEW l \in Line, NEW A, IsFiniteSet(A), l.account \in A
  PROVE  SumFunction([a \in A |-> On(l, a)]) = l.debit - l.credit
<1> DEFINE f == [a \in A |-> On(l, a)]
           x == l.account
<1>1. /\ DOMAIN f = A /\ f[x] = l.debit - l.credit /\ f[x] \in Int
      /\ \A a \in A \ {x} : f[a] = 0
  BY OnType DEF On
<1>2. x \in A
  OBVIOUS
<1> HIDE DEF f, x
<1>3. /\ SumFunctionOnSet(f, A) = SumFunctionOnSet(f, {x})
  <2>1. {x} \subseteq A /\ \A a \in {x} : f[a] \in Int
    BY <1>1, <1>2
  <2> QED
    BY <1>1, <2>1, SumPad
<1>4. SumFunctionOnSet(f, {x}) = f[x]
  <2>1. IsFiniteSet({x}) /\ x \in {x} /\ {x} \ {x} = {} /\ \A a \in {x} : f[a] \in Int
    BY <1>1, FS_Singleton
  <2>2. SumFunctionOnSet(f, {x}) = f[x] + SumFunctionOnSet(f, {x} \ {x})
    BY <2>1, SumWithout
  <2>3. SumFunctionOnSet(f, {x} \ {x}) = 0
    BY <2>1, SumOfNone
  <2> QED
    BY <1>1, <2>2, <2>3
<1>5. SumFunction(f) = l.debit - l.credit
  BY <1>1, <1>3, <1>4 DEF SumFunction
<1> QED
  BY <1>5 DEF f

\* A voucher that balances adds nothing to its accounts taken together.
LEMMA VoucherNets ==
  ASSUME NEW s \in Seq(Line), Validate(s), NEW A, IsFiniteSet(A),
         \A i \in DOMAIN s : s[i].account \in A
  PROVE  SumFunction([a \in A |-> NetOn(s, a)]) = 0
<1> DEFINE D == DOMAIN s
           m == [i \in D |-> [a \in A |-> On(s[i], a)]]
           row == [i \in D |-> s[i].debit - s[i].credit]
           col == [a \in A |-> NetOn(s, a)]
           deb == [i \in D |-> s[i].debit]
           cre == [i \in D |-> s[i].credit]
<1>1. IsFiniteSet(D) /\ \A i \in D : s[i] \in Line
  BY SeqDomain
<1>2. \A i \in D : m[i] \in [A -> Int] /\ m[i] = [a \in A |-> On(s[i], a)]
  BY <1>1, OnType
<1>3. \A i \in D : row[i] = SumFunction(m[i])
  BY <1>1, <1>2, OnSum
<1>4. \A a \in A : col[a] = SumFunction(Column(m, D, a))
  <2> SUFFICES ASSUME NEW a \in A PROVE col[a] = SumFunction(Column(m, D, a))
    OBVIOUS
  <2>1. Column(m, D, a) = [i \in DOMAIN s |-> On(s[i], a)]
    BY DEF Column
  <2>2. col[a] = NetOn(s, a)
    OBVIOUS
  <2> HIDE DEF m, col
  <2> QED
    BY <2>1, <2>2, NetOnSum
<1>5. DOMAIN col = A /\ DOMAIN row = D /\ DOMAIN deb = D /\ DOMAIN cre = D
  OBVIOUS
<1>6. \A i \in D : deb[i] \in Int /\ cre[i] \in Int /\ row[i] \in Int /\ deb[i] = row[i] + cre[i]
  BY <1>1, LineType, AmountsAre
<1>7. SumFunction(deb) = SumFunction(cre)
  BY ValidateIsExact
<1> HIDE DEF D, m, row, col, deb, cre
<1>8. SumFunctionOnSet(row, D) = SumFunctionOnSet(col, A)
  <2>1. IsMargin(m, D, A, row, col)
    BY <1>2, <1>3, <1>4 DEF IsMargin
  <2> QED
    BY <1>1, <2>1, SumSwap
<1>9. SumFunctionOnSet(deb, D) = SumFunctionOnSet(row, D) + SumFunctionOnSet(cre, D)
  BY <1>1, <1>6, SumPlus
<1>10. SumFunctionOnSet(row, D) \in Int /\ SumFunctionOnSet(cre, D) \in Int
  BY <1>1, <1>6, SumType
<1>11. SumFunction(col) = 0
  BY <1>5, <1>7, <1>8, <1>9, <1>10 DEF SumFunction
<1> QED
  BY <1>11 DEF col

\* And so do vouchers that balance: a trial balance adds up to nothing.
LEMMA BalancesNet ==
  ASSUME NEW vs, NEW K, IsFiniteSet(K), \A k \in K : vs[k].lines \in Seq(Line) /\ Validate(vs[k].lines),
         NEW A, IsFiniteSet(A), AccountsIn(vs, K) \subseteq A
  PROVE  SumFunction([a \in A |-> TotalOn(vs, K, a)]) = 0
<1> DEFINE m == [k \in K |-> [a \in A |-> NetOn(vs[k].lines, a)]]
           row == [k \in K |-> SumFunction(m[k])]
           col == [a \in A |-> TotalOn(vs, K, a)]
<1>1. \A k \in K : m[k] \in [A -> Int] /\ m[k] = [a \in A |-> NetOn(vs[k].lines, a)]
  BY NetOnType
<1>2. \A k \in K : row[k] = SumFunction(m[k])
  OBVIOUS
<1>3. \A a \in A : col[a] = SumFunction(Column(m, K, a))
  <2> SUFFICES ASSUME NEW a \in A PROVE col[a] = SumFunction(Column(m, K, a))
    OBVIOUS
  <2>1. Column(m, K, a) = [k \in K |-> NetOn(vs[k].lines, a)]
    BY DEF Column
  <2>2. col[a] = TotalOn(vs, K, a)
    OBVIOUS
  <2> HIDE DEF m, col
  <2> QED
    BY <2>1, <2>2 DEF TotalOn
<1>4. \A k \in K : SumFunction(m[k]) = 0
  <2> SUFFICES ASSUME NEW k \in K PROVE SumFunction(m[k]) = 0
    OBVIOUS
  <2>1. PICK s : s = vs[k].lines
    OBVIOUS
  <2>2. \A i \in DOMAIN s : s[i].account \in A
    BY <2>1 DEF AccountsIn
  <2>3. s \in Seq(Line) /\ Validate(s)
    BY <2>1
  <2>4. SumFunction([a \in A |-> NetOn(s, a)]) = 0
    BY <2>2, <2>3, VoucherNets
  <2> HIDE DEF m
  <2> QED
    BY <1>1, <2>1, <2>4
<1>5. DOMAIN col = A
  OBVIOUS
<1> HIDE DEF m, col
<1>6. \A k \in K : row[k] = 0
  BY <1>2, <1>4
<1> HIDE DEF row
<1>7. SumFunctionOnSet(row, K) = SumFunctionOnSet(col, A)
  <2>1. IsMargin(m, K, A, row, col)
    BY <1>1, <1>2, <1>3 DEF IsMargin
  <2> QED
    BY <2>1, SumSwap
<1>8. SumFunctionOnSet(row, K) = 0
  BY <1>6, SumZero
<1>9. SumFunction(col) = 0
  BY <1>5, <1>7, <1>8 DEF SumFunction
<1> QED
  BY <1>9 DEF col

\* The accounts of the lines s are in the classes 1 to 8 of the chart.
InClasses(s) == \A i \in DOMAIN s : Classify(s[i].account) \in 1 .. 8

\* Every account with lines is in one of the classes of the BAS chart.
ClassesInv ==
  /\ \A k \in DOMAIN book : InClasses(book[k].lines)
  /\ \A w \in Worker : task[w].step \in {"finalize", "pay"} => InClasses(task[w].lines)

\* What two sets of vouchers add to an account is what each of them adds.
LEMMA TotalJoin ==
  ASSUME NEW vs, NEW K, IsFiniteSet(K), NEW L, IsFiniteSet(L), K \cap L = {},
         \A k \in K \cup L : vs[k].lines \in Seq(Line), NEW a
  PROVE  /\ TotalOn(vs, K \cup L, a) = TotalOn(vs, K, a) + TotalOn(vs, L, a)
         /\ TotalOn(vs, K, a) \in Int /\ TotalOn(vs, L, a) \in Int
<1> DEFINE f == [k \in K |-> NetOn(vs[k].lines, a)]
           g == [k \in L |-> NetOn(vs[k].lines, a)]
           h == [k \in K \cup L |-> NetOn(vs[k].lines, a)]
<1>1. /\ DOMAIN f = K /\ DOMAIN g = L /\ DOMAIN h = K \cup L
      /\ \A k \in K \cup L : h[k] \in Int
      /\ \A k \in K : f[k] = h[k]
      /\ \A k \in L : g[k] = h[k]
  BY NetOnType
<1>2. /\ TotalOn(vs, K, a) = SumFunction(f) /\ TotalOn(vs, L, a) = SumFunction(g)
      /\ TotalOn(vs, K \cup L, a) = SumFunction(h)
  BY DEF TotalOn
<1> HIDE DEF f, g, h
<1>3. \A k \in K : h[k] \in Int
  BY <1>1
<1>4. \A k \in L : h[k] \in Int
  BY <1>1
<1>5. SumFunctionOnSet(h, K \cup L) = SumFunctionOnSet(h, K) + SumFunctionOnSet(h, L)
  BY <1>1, SumJoin
<1>6. SumFunctionOnSet(f, K) = SumFunctionOnSet(h, K) /\ SumFunctionOnSet(h, K) \in Int
  BY <1>1, <1>3, SumSame, SumType
<1>7. SumFunctionOnSet(g, L) = SumFunctionOnSet(h, L) /\ SumFunctionOnSet(h, L) \in Int
  BY <1>1, <1>4, SumSame, SumType
<1>8. /\ SumFunction(f) = SumFunctionOnSet(f, K) /\ SumFunction(g) = SumFunctionOnSet(g, L)
      /\ SumFunction(h) = SumFunctionOnSet(h, K \cup L)
  BY <1>1, Zenon DEF SumFunction
<1> QED
  BY <1>2, <1>5, <1>6, <1>7, <1>8

\* The vouchers of the years W, and those up to a year.
InYears(W) == {k \in DOMAIN book : book[k].year \in W}

\* One year more: its vouchers are added to those of the others.
LEMMA YearMore ==
  ASSUME TypeOK, NEW a, NEW U, NEW z \in U
  PROVE  TotalOn(book, InYears(U), a) = TotalOn(book, InYears(U \ {z}), a) + TotalOn(book, InYear(z), a)
<1>1. PICK K, L : K = InYears(U \ {z}) /\ L = InYear(z)
  OBVIOUS
<1>2. K \cap L = {} /\ InYears(U) = K \cup L
  BY <1>1 DEF InYears, InYear
<1>3. IsFiniteSet(K) /\ IsFiniteSet(L) /\ \A k \in K \cup L : book[k].lines \in Seq(Line)
  <2>1. IsFiniteSet(DOMAIN book) /\ \A k \in DOMAIN book : book[k].lines \in Seq(Line)
    BY BookType
  <2>2. K \subseteq DOMAIN book /\ L \subseteq DOMAIN book
    BY <1>1 DEF InYears, InYear
  <2> QED
    BY <2>1, <2>2, FS_Subset
<1>4. TotalOn(book, K \cup L, a) = TotalOn(book, K, a) + TotalOn(book, L, a)
  <2>1. K \cap L = {} /\ IsFiniteSet(K) /\ IsFiniteSet(L)
    BY <1>2, <1>3
  <2>2. \A k \in K \cup L : book[k].lines \in Seq(Line)
    BY <1>3
  <2> QED
    BY <2>1, <2>2, TotalJoin
<1> QED
  BY <1>1, <1>2, <1>4, Zenon

\* Years that add nothing to an account one by one add nothing together.
LEMMA YearsAddUp ==
  ASSUME TypeOK, NEW a, NEW W, IsFiniteSet(W), \A z \in W : TotalOn(book, InYear(z), a) = 0
  PROVE  TotalOn(book, InYears(W), a) = 0
<1> DEFINE T == {U \in SUBSET W : TotalOn(book, InYears(U), a) # 0}
<1>1. ASSUME NEW U \in T, \A V \in T : V \subseteq U => V = U
      PROVE  FALSE
  <2>1. U \subseteq W /\ TotalOn(book, InYears(U), a) # 0
    OBVIOUS
  <2>2. U # {}
    <3>1. ASSUME U = {} PROVE FALSE
      <4>1. InYears(U) = {}
        BY <3>1 DEF InYears
      <4>2. PICK f : f = [k \in InYears(U) |-> NetOn(book[k].lines, a)]
        OBVIOUS
      <4>3. DOMAIN f = {}
        BY <4>1, <4>2
      <4>4. SumFunction(f) = 0
        BY <4>3, SumOfNone DEF SumFunction
      <4> QED
        BY <2>1, <4>2, <4>4 DEF TotalOn
    <3> QED
      BY <3>1
  <2>3. PICK z \in U : TRUE
    BY <2>2
  <2>4. U \ {z} \subseteq W /\ U \ {z} # U /\ TotalOn(book, InYears(U \ {z}), a) = 0
    BY <1>1, <2>1, <2>3
  <2> HIDE DEF T
  <2>5. TotalOn(book, InYears(U), a) = TotalOn(book, InYears(U \ {z}), a) + TotalOn(book, InYear(z), a)
    BY YearMore
  <2>6. TotalOn(book, InYear(z), a) = 0
    BY <2>1, <2>3
  <2> QED
    BY <2>1, <2>4, <2>5, <2>6
<1>2. T = {}
  <2> HIDE DEF T
  <2>1. T \in SUBSET (SUBSET W)
    BY DEF T
  <2> QED
    BY <1>1, <2>1, LeastSubset
<1>3. W \notin T
  BY <1>2
<1> QED
  BY <1>3

UpTo(y) == {k \in DOMAIN book : book[k].year <= y}

\* The years before y are closed and left alone, or empty.
EarlierSettled(y) ==
  \A z \in Years : z < y => ClosedAndLeft(z) \/ \A k \in DOMAIN book : book[k].year # z

\* No bokslut up to year y missed a voucher, and series O holds nothing else.
Settled(y) == \A z \in Years : z <= y => z \notin missed /\ OnlyBokslut(z)

\* A year that has its bokslut last is closed, and zero.
LEMMA LeftIsZero ==
  ASSUME SoundInv, CloseInv, YearsZero, NEW z, ClosedAndLeft(z), z \notin missed, OnlyBokslut(z),
         NEW a \in Nat, IsResult(a)
  PROVE  z \in closed /\ TotalOn(book, InYear(z), a) = 0
<1>1. z \in closed
  BY DEF ClosedAndLeft, CloseInv
<1> QED
  BY <1>1 DEF YearsZero

\* A year without vouchers adds nothing.
LEMMA EmptyYear ==
  ASSUME NEW z, \A k \in DOMAIN book : book[k].year # z, NEW a
  PROVE  TotalOn(book, InYear(z), a) = 0
<1>1. InYear(z) = {}
  BY DEF InYear
<1>2. PICK f : f = [k \in InYear(z) |-> NetOn(book[k].lines, a)]
  OBVIOUS
<1>3. DOMAIN f = {}
  BY <1>1, <1>2
<1>4. SumFunction(f) = 0
  BY <1>3, SumOfNone DEF SumFunction
<1> QED
  BY <1>2, <1>4 DEF TotalOn

\* On a result account all earlier years cancel: what is left is the year.
LEMMA ResultUpTo ==
  ASSUME SoundInv, CloseInv, YearsZero, NEW y \in Years, EarlierSettled(y), Settled(y),
         NEW a \in Nat, IsResult(a)
  PROVE  TotalOn(book, UpTo(y), a) = TotalOn(book, InYear(y), a)
<1> DEFINE W == {book[k].year : k \in {j \in DOMAIN book : book[j].year < y}}
<1>1. /\ IsFiniteSet(DOMAIN book) /\ \A k \in DOMAIN book : book[k].lines \in Seq(Line)
      /\ \A k \in DOMAIN book : book[k].year \in Years
  <2>1. book \in Seq(Voucher) /\ IsFiniteSet(DOMAIN book) /\ \A k \in DOMAIN book : book[k].lines \in Seq(Line)
    BY BookType DEF SoundInv
  <2>2. \A k \in DOMAIN book : book[k] \in Voucher
    BY <2>1, SeqDomain
  <2> QED
    BY <2>1, <2>2 DEF Voucher
<1>2. Years \subseteq Nat
  BY BooksAssumption
<1>3. IsFiniteSet(W)
  <2> DEFINE J == {j \in DOMAIN book : book[j].year < y}
             g == [k \in J |-> book[k].year]
  <2>1. IsFiniteSet(J)
    BY <1>1, FS_Subset
  <2>2. g \in Surjection(J, W)
    BY DEF Surjection
  <2> HIDE DEF J, g, W
  <2> QED
    BY <2>1, <2>2, FS_Surjection
<1>4. ASSUME NEW z \in W PROVE TotalOn(book, InYear(z), a) = 0
  <2>1. z \in Years /\ z < y
    BY <1>1
  <2>2. ClosedAndLeft(z) \/ \A k \in DOMAIN book : book[k].year # z
    BY <2>1 DEF EarlierSettled
  <2>3. z \notin missed /\ OnlyBokslut(z)
    <3>1. z \in Nat /\ y \in Nat
      BY <1>2, <2>1
    <3>2. z <= y
      BY <2>1, <3>1
    <3> HIDE DEF W
    <3> QED
      BY <2>1, <3>2 DEF Settled
  <2> HIDE DEF W
  <2> QED
    BY <2>2, <2>3, LeftIsZero, EmptyYear
<1>5. /\ InYears(W) \cap InYear(y) = {} /\ UpTo(y) = InYears(W) \cup InYear(y)
  <2>1. \A k \in DOMAIN book : book[k].year \in W <=> book[k].year < y
    OBVIOUS
  <2> HIDE DEF W
  <2>2. \A n \in Nat : (n <= y <=> n < y \/ n = y) /\ ~(n < y /\ n = y)
    BY <1>2
  <2>3. \A k \in DOMAIN book : book[k].year \in Nat
    BY <1>1, <1>2
  <2> QED
    BY <2>1, <2>2, <2>3 DEF InYears, InYear, UpTo
<1> HIDE DEF W
<1>6. PICK K, L : K = InYears(W) /\ L = InYear(y)
  OBVIOUS
<1>7. /\ IsFiniteSet(K) /\ IsFiniteSet(L) /\ K \cap L = {}
      /\ \A k \in K \cup L : book[k].lines \in Seq(Line)
  BY <1>1, <1>5, <1>6, FS_Subset DEF InYears, InYear
<1>8. TotalOn(book, K \cup L, a) = TotalOn(book, K, a) + TotalOn(book, L, a) /\ TotalOn(book, L, a) \in Int
  BY <1>7, TotalJoin
<1>9. TotalOn(book, K, a) = 0
  <2>1. TotalOn(book, InYears(W), a) = 0
    BY <1>3, <1>4, YearsAddUp DEF SoundInv
  <2> QED
    BY <1>6, <2>1, Zenon
<1>10. TotalOn(book, K \cup L, a) = TotalOn(book, L, a)
  BY <1>8, <1>9
<1> QED
  BY <1>5, <1>6, <1>10, Zenon

LEMMA SumOnSet ==
  ASSUME NEW tb, NEW B, IsFiniteSet(B), \A a \in B : tb[a] \in Int
  PROVE  SumFunction([a \in B |-> tb[a]]) = SumFunctionOnSet(tb, B)
<1> DEFINE f == [a \in B |-> tb[a]]
<1>1. DOMAIN f = B /\ \A a \in B : f[a] = tb[a]
  OBVIOUS
<1> HIDE DEF f
<1>2. SumFunction(f) = SumFunctionOnSet(tb, B)
  BY <1>1, SumSame DEF SumFunction
<1> QED
  BY <1>2 DEF f

\* The classes of the chart divide the accounts of a trial balance.
LEMMA ClassesDivide ==
  ASSUME NEW tb, NEW A, DOMAIN tb = A, IsFiniteSet(A), A \subseteq Nat, \A a \in A : tb[a] \in Int,
         \A a \in A : Classify(a) \in 1 .. 8
  PROVE  /\ SumOn(tb, IsAsset) + SumOn(tb, IsEquity) + SumOn(tb, IsLiability)
              = SumFunctionOnSet(tb, A) - SumOn(tb, IsResult)
         /\ SumOn(tb, IsResult) = SumFunctionOnSet(tb, {a \in A : IsResult(a)})
         /\ SumOn(tb, IsResult) \in Int
<1> DEFINE As == {a \in A : IsAsset(a)}
           Eq == {a \in A : IsEquity(a)}
           Li == {a \in A : IsLiability(a)}
           Re == {a \in A : IsResult(a)}
<1>1. /\ SumOn(tb, IsAsset) = SumFunction([a \in As |-> tb[a]])
      /\ SumOn(tb, IsEquity) = SumFunction([a \in Eq |-> tb[a]])
      /\ SumOn(tb, IsLiability) = SumFunction([a \in Li |-> tb[a]])
      /\ SumOn(tb, IsResult) = SumFunction([a \in Re |-> tb[a]])
  BY DEF SumOn
<1>2. /\ As \subseteq A /\ Eq \subseteq A /\ Li \subseteq A /\ Re \subseteq A
  OBVIOUS
<1>3. \A a \in A : /\ IsAsset(a) \/ IsEquity(a) \/ IsLiability(a) \/ IsResult(a)
                   /\ IsAsset(a) => ~IsEquity(a) /\ ~IsLiability(a) /\ ~IsResult(a)
                   /\ IsEquity(a) => ~IsLiability(a) /\ ~IsResult(a)
                   /\ IsLiability(a) => ~IsResult(a)
  <2> SUFFICES ASSUME NEW a \in A
               PROVE  /\ IsAsset(a) \/ IsEquity(a) \/ IsLiability(a) \/ IsResult(a)
                      /\ IsAsset(a) => ~IsEquity(a) /\ ~IsLiability(a) /\ ~IsResult(a)
                      /\ IsEquity(a) => ~IsLiability(a) /\ ~IsResult(a)
                      /\ IsLiability(a) => ~IsResult(a)
    OBVIOUS
  <2>1. a \in Nat /\ Classify(a) \in 1 .. 8 /\ Classify(a) = a \div 1000
    BY DEF Classify
  <2>2. IsEquity(a) => Classify(a) = 2
    BY <2>1 DEF IsEquity
  <2> QED
    BY <2>1, <2>2 DEF IsAsset, IsLiability, IsResult
<1>4. /\ As \cap Eq = {} /\ (As \cup Eq) \cap Li = {} /\ (As \cup Eq \cup Li) \cap Re = {}
      /\ As \cup Eq \cup Li \cup Re = A
  BY <1>3
<1> HIDE DEF As, Eq, Li, Re
<1>5. \A B \in SUBSET A : IsFiniteSet(B) /\ \A a \in B : tb[a] \in Int
  BY FS_Subset
<1>6. \A B \in SUBSET A : SumFunction([a \in B |-> tb[a]]) = SumFunctionOnSet(tb, B)
  BY <1>5, SumOnSet
<1>7. \A B \in SUBSET A : SumFunctionOnSet(tb, B) \in Int
  BY <1>5, SumType
<1>8. ASSUME NEW B \in SUBSET A, NEW C \in SUBSET A, B \cap C = {}
      PROVE  SumFunctionOnSet(tb, B \cup C) = SumFunctionOnSet(tb, B) + SumFunctionOnSet(tb, C)
  <2>1. IsFiniteSet(B) /\ IsFiniteSet(C)
    BY <1>5
  <2>2. \A a \in B \cup C : tb[a] \in Int
    OBVIOUS
  <2> QED
    BY <1>8, <2>1, <2>2, SumJoin
<1>9. SumFunctionOnSet(tb, As \cup Eq) = SumFunctionOnSet(tb, As) + SumFunctionOnSet(tb, Eq)
  BY <1>2, <1>4, <1>8
<1>10. SumFunctionOnSet(tb, As \cup Eq \cup Li) = SumFunctionOnSet(tb, As \cup Eq) + SumFunctionOnSet(tb, Li)
  <2>1. As \cup Eq \in SUBSET A
    BY <1>2
  <2> QED
    BY <1>2, <1>4, <1>8, <2>1, Zenon
<1>11. SumFunctionOnSet(tb, As \cup Eq \cup Li \cup Re)
         = SumFunctionOnSet(tb, As \cup Eq \cup Li) + SumFunctionOnSet(tb, Re)
  <2>1. As \cup Eq \cup Li \in SUBSET A
    BY <1>2
  <2> QED
    BY <1>2, <1>4, <1>8, <2>1, Zenon
<1>12. SumFunctionOnSet(tb, As \cup Eq \cup Li \cup Re) = SumFunctionOnSet(tb, A)
  BY <1>4, Zenon
<1>13. /\ SumOn(tb, IsAsset) = SumFunctionOnSet(tb, As)
       /\ SumOn(tb, IsEquity) = SumFunctionOnSet(tb, Eq)
       /\ SumOn(tb, IsLiability) = SumFunctionOnSet(tb, Li)
       /\ SumOn(tb, IsResult) = SumFunctionOnSet(tb, Re)
  BY <1>1, <1>2, <1>6, Zenon
<1>14. /\ SumFunctionOnSet(tb, As) \in Int /\ SumFunctionOnSet(tb, Eq) \in Int
       /\ SumFunctionOnSet(tb, Li) \in Int /\ SumFunctionOnSet(tb, Re) \in Int
  BY <1>2, <1>7
<1>15. SumOn(tb, IsAsset) + SumOn(tb, IsEquity) + SumOn(tb, IsLiability)
         = SumFunctionOnSet(tb, A) - SumOn(tb, IsResult)
  BY <1>9, <1>10, <1>11, <1>12, <1>13, <1>14
<1>16. SumOn(tb, IsResult) = SumFunctionOnSet(tb, {a \in A : IsResult(a)})
  BY <1>13 DEF Re
<1> QED
  BY <1>13, <1>14, <1>15, <1>16

\* From the years one by one to the row of the balance sheet.
LEMMA ResultRows ==
  ASSUME SoundInv, CloseInv, YearsZero, ClassesInv
  PROVE  ResultRowAfterCloses
<1> SUFFICES ASSUME NEW y \in Years, y \in closed => ClosedAndLeft(y), EarlierSettled(y), Settled(y)
             PROVE  ResultRow(y)
  BY DEF ResultRowAfterCloses, EarlierSettled, Settled
<1>0. y \notin missed /\ OnlyBokslut(y)
  <2>1. y \in Nat
    BY BooksAssumption
  <2> QED
    BY <2>1 DEF Settled
<1>1. /\ IsFiniteSet(DOMAIN book) /\ \A k \in DOMAIN book : book[k].lines \in Seq(Line)
      /\ \A k \in DOMAIN book : Validate(book[k].lines)
  BY BookType DEF SoundInv, AllValid
<1> DEFINE K == UpTo(y)
           Y == InYear(y)
           A == AccountsIn(book, K)
           B == AccountsIn(book, Y)
           tb == BalancesOf(book, K)
           ty == BalancesOf(book, Y)
<1>2. /\ IsFiniteSet(K) /\ K \subseteq DOMAIN book
      /\ IsFiniteSet(Y) /\ Y \subseteq DOMAIN book
  BY <1>1, FS_Subset DEF UpTo, InYear
<1>3. Y \subseteq K
  <2>1. y \in Nat
    BY BooksAssumption
  <2> QED
    BY <2>1 DEF UpTo, InYear
<1> HIDE DEF K, Y
<1>4. /\ IsFiniteSet(A) /\ A \subseteq Nat /\ IsFiniteSet(B) /\ B \subseteq A
  <2>1. IsFiniteSet(A) /\ A \subseteq Nat
    BY <1>1, <1>2, AccountsInType
  <2>2. B \subseteq A
    BY <1>3 DEF AccountsIn
  <2> QED
    BY <2>1, <2>2, FS_Subset
<1>5. \A a \in A : Classify(a) \in 1 .. 8
  BY <1>2 DEF AccountsIn, ClassesInv, InClasses
<1>6. DOMAIN tb = A /\ \A a \in A : tb[a] = TotalOn(book, K, a)
  BY DEF BalancesOf
<1>7. DOMAIN ty = B /\ \A a \in B : ty[a] = TotalOn(book, Y, a)
  BY DEF BalancesOf
<1>8. \A a : TotalOn(book, K, a) \in Int /\ TotalOn(book, Y, a) \in Int
  BY <1>1, <1>2, TotalOnType
<1>9. \A a : a \notin B => TotalOn(book, Y, a) = 0
  <2> SUFFICES ASSUME NEW a, a \notin B PROVE TotalOn(book, Y, a) = 0
    OBVIOUS
  <2>1. BalanceOf(ty, a) = TotalOn(book, Y, a)
    BY <1>1, <1>2, BalanceIsTotal
  <2> HIDE DEF ty, B
  <2> QED
    BY <1>7, <2>1 DEF BalanceOf
<1>10. SumFunctionOnSet(tb, A) = 0
  <2>1. SumFunction([a \in A |-> TotalOn(book, K, a)]) = 0
    <3>1. \A k \in K : book[k].lines \in Seq(Line) /\ Validate(book[k].lines)
      BY <1>1, <1>2
    <3>2. AccountsIn(book, K) \subseteq A
      OBVIOUS
    <3> HIDE DEF A
    <3> QED
      BY <1>2, <1>4, <3>1, <3>2, BalancesNet
  <2>2. tb = [a \in A |-> TotalOn(book, K, a)]
    BY DEF BalancesOf
  <2> HIDE DEF tb, A
  <2> QED
    BY <1>6, <2>1, <2>2 DEF SumFunction
<1> HIDE DEF A, B, tb, ty
<1>11. \A a \in A : IsResult(a) => TotalOn(book, K, a) = TotalOn(book, Y, a)
  BY <1>4, ResultUpTo DEF K, Y
<1> DEFINE Re == {a \in A : IsResult(a)}
           Ry == {a \in B : IsResult(a)}
<1>12. /\ SumOn(tb, IsAsset) + SumOn(tb, IsEquity) + SumOn(tb, IsLiability)
            = SumFunctionOnSet(tb, A) - SumOn(tb, IsResult)
       /\ SumOn(tb, IsResult) = SumFunctionOnSet(tb, Re)
       /\ SumOn(tb, IsResult) \in Int
  BY <1>4, <1>5, <1>6, <1>8, ClassesDivide
<1>13. SyntheticResult(tb) = Wrap(-SumOn(tb, IsResult))
  BY <1>10, <1>12 DEF SyntheticResult
<1>14. TrialBalanceAsOf(y) = tb
  BY DEF TrialBalanceAsOf, TrialBalance, tb, K, UpTo
<1>15. CASE ClosedAndLeft(y)
  <2>1. \A a \in Re : tb[a] = 0
    <3> SUFFICES ASSUME NEW a \in Re PROVE tb[a] = 0
      OBVIOUS
    <3>1. a \in A /\ a \in Nat /\ IsResult(a)
      BY <1>4
    <3>2. TotalOn(book, Y, a) = 0
      BY <1>0, <1>15, <3>1, LeftIsZero DEF Y
    <3> QED
      BY <1>6, <1>11, <3>1, <3>2
  <2>2. IsFiniteSet(Re)
    BY <1>4, FS_Subset
  <2> HIDE DEF Re
  <2>3. SumFunctionOnSet(tb, Re) = 0
    BY <2>1, <2>2, SumZero
  <2>4. 0 \in Amount
    BY AmountsAre
  <2>5. SyntheticResult(tb) = 0
    <3>1. SumOn(tb, IsAsset) + SumOn(tb, IsEquity) + SumOn(tb, IsLiability) = 0
      BY <1>10, <1>12, <2>3
    <3>2. SyntheticResult(tb) = Wrap(0)
      BY <3>1 DEF SyntheticResult
    <3> QED
      BY <2>4, <3>2, WrapId
  <2> QED
    BY <1>14, <1>15, <2>5 DEF ResultRow
<1>16. CASE ~ClosedAndLeft(y)
  <2>1. \A k \in DOMAIN book : book[k].year = y => book[k].series # "O"
    <3> SUFFICES ASSUME NEW k \in DOMAIN book, book[k].year = y, book[k].series = "O" PROVE FALSE
      OBVIOUS
    <3>1. book[k].applied
      BY <1>0 DEF OnlyBokslut
    <3>2. y \in closed
      BY <3>1 DEF CloseInv
    <3> QED
      BY <1>16, <3>2
  <2>2. TrialBalanceOfYear(y, Len(book)) = ty
    <3>1. {k \in DOMAIN book : book[k].year = y /\ book[k].series # "O"} = Y
      BY <2>1 DEF Y, InYear
    <3>2. TrialBalanceOfYear(y, Len(book))
            = BalancesOf(book, {k \in 1 .. Len(book) : book[k].year = y /\ book[k].series # "O"})
      BY DEF TrialBalanceOfYear
    <3>3. DOMAIN book = 1 .. Len(book)
      BY BookType DEF SoundInv
    <3> QED
      BY <3>1, <3>2, <3>3, Zenon DEF ty
  <2>3. /\ IsFiniteSet(Re) /\ IsFiniteSet(Ry) /\ Ry \subseteq Re
    BY <1>4, FS_Subset
  <2>4. \A a \in Re \ Ry : tb[a] = 0
    BY <1>6, <1>9, <1>11
  <2>5. \A a \in Ry : tb[a] = ty[a] /\ tb[a] \in Int /\ ty[a] \in Int
    BY <1>4, <1>6, <1>7, <1>8, <1>11
  <2>6. SumOn(ty, IsResult) = SumFunction([a \in Ry |-> ty[a]])
    BY <1>7 DEF SumOn
  <2> HIDE DEF Re, Ry
  <2>7. SumFunctionOnSet(tb, Re) = SumFunctionOnSet(tb, Ry)
    BY <2>3, <2>4, <2>5, SumPad
  <2>8. SumFunctionOnSet(tb, Ry) = SumFunctionOnSet(ty, Ry)
    BY <2>3, <2>5, SumSame
  <2>9. SumFunction([a \in Ry |-> ty[a]]) = SumFunctionOnSet(ty, Ry)
    BY <2>3, <2>5, SumOnSet
  <2>10. SumOn(tb, IsResult) = SumOn(ty, IsResult)
    BY <1>12, <2>6, <2>7, <2>8, <2>9
  <2> QED
    BY <1>13, <1>14, <1>16, <2>2, <2>10 DEF ResultRow, ResultOf
<1> QED
  BY <1>15, <1>16

\* Lines put together from lines in the classes are in the classes.
LEMMA JoinClasses ==
  ASSUME NEW s \in Seq(Line), InClasses(s), NEW t \in Seq(Line), InClasses(t)
  PROVE  InClasses(s \o t)
<1>1. /\ Len(s) \in Nat /\ Len(t) \in Nat /\ DOMAIN s = 1 .. Len(s) /\ DOMAIN t = 1 .. Len(t)
      /\ s \o t \in Seq(Line) /\ Len(s \o t) = Len(s) + Len(t)
      /\ \A i \in 1 .. Len(s) + Len(t) : (s \o t)[i] = IF i <= Len(s) THEN s[i] ELSE t[i - Len(s)]
  BY ConcatProperties, SeqDomain
<1>2. PICK u : u = s \o t
  OBVIOUS
<1>3. DOMAIN u = 1 .. Len(s) + Len(t)
  BY <1>1, <1>2, SeqDomain
<1>4. ASSUME NEW i \in DOMAIN u PROVE Classify(u[i].account) \in 1 .. 8
  <2>1. CASE i <= Len(s)
    <3>1. u[i] = s[i] /\ i \in DOMAIN s
      BY <1>1, <1>2, <1>3, <2>1
    <3> QED
      BY <3>1 DEF InClasses
  <2>2. CASE ~(i <= Len(s))
    <3>1. u[i] = t[i - Len(s)] /\ i - Len(s) \in DOMAIN t
      BY <1>1, <1>2, <1>3, <2>2
    <3> QED
      BY <3>1 DEF InClasses
  <2> QED
    BY <2>1, <2>2
<1> QED
  BY <1>2, <1>4 DEF InClasses

Classed(l) == Classify(l.account) \in 1 .. 8

LEMMA ShortClasses ==
  /\ InClasses(<< >>)
  /\ \A k : Classed(k) => InClasses(<<k>>)
  /\ \A k, l : Classed(k) /\ Classed(l) => InClasses(<<k, l>>)
  /\ \A k, l, m : Classed(k) /\ Classed(l) /\ Classed(m) => InClasses(<<k, l, m>>)
  /\ \A k, l, m, n : Classed(k) /\ Classed(l) /\ Classed(m) /\ Classed(n) => InClasses(<<k, l, m, n>>)
  BY DEF InClasses, Classed

LEMMA ClassedSides ==
  ASSUME NEW a, Classify(a) \in 1 .. 8, NEW n
  PROVE  Classed(Debit(a, n)) /\ Classed(Credit(a, n))
  BY DEF Classed, Debit, Credit

\* The accounts the program names itself.
Named == {1510, 1930, 2099, 2440, 2611, 2614, 2621, 2631, 2640, 2645, 3001, 3002, 3003, 3305, 3308,
          3740, 3960, 4531, 4535, 7960}

LEMMA NamedClasses == \A a \in Named : Classify(a) \in 1 .. 8
  BY DEF Named, Classify

LEMMA NamedSides == \A a \in Named : \A n : Classed(Debit(a, n)) /\ Classed(Credit(a, n))
  BY NamedClasses, ClassedSides

\* Every voucher the system writes itself names accounts of the classes 1 to 8.
LEMMA SaleClasses ==
  ASSUME NEW d, InvoiceOK(d)
  PROVE  InClasses(VerificationLines(d)) /\ InClasses(ReverseLines(VerificationLines(d)))
<1> DEFINE v == VerificationLines(d)
<1>0. BooksSale(d)
  BY VerificationLinesType
<1>1. /\ v \in Seq(Line) /\ Len(v) >= 1 /\ v[1] = Debit(1510, GrossOf(d, CodesOf(d) \cap Range(codeOrder)))
      /\ \A i \in 1 .. Len(v) : i > 1 => v[i].account \in SaleAccounts
  BY <1>0 DEF BooksSale
<1>2. v[1].account = 1510
  BY <1>1 DEF Debit
<1> HIDE DEF v
<1>3. DOMAIN v = 1 .. Len(v) /\ Len(v) \in Nat
  BY <1>1, SeqDomain
<1>4. \A i \in DOMAIN v : v[i].account \in Named
  BY <1>1, <1>2, <1>3 DEF SaleAccounts, Named
<1>5. InClasses(v)
  BY <1>4, NamedClasses DEF InClasses
<1>6. DOMAIN ReverseLines(v) = 1 .. Len(v) /\ \A i \in 1 .. Len(v) : ReverseLines(v)[i].account = v[i].account
  BY <1>1, ReverseSwaps DEF ReverseLines
<1>7. InClasses(ReverseLines(v))
  BY <1>3, <1>5, <1>6 DEF InClasses
<1> QED
  BY <1>5, <1>7 DEF v

LEMMA UndoClasses ==
  ASSUME NEW s \in Seq(Line), InClasses(s)
  PROVE  InClasses(ReverseLines(s))
<1>1. DOMAIN s = 1 .. Len(s)
  BY SeqDomain
<1>2. DOMAIN ReverseLines(s) = 1 .. Len(s) /\ \A i \in 1 .. Len(s) : ReverseLines(s)[i].account = s[i].account
  BY ReverseSwaps DEF ReverseLines
<1> QED
  BY <1>1, <1>2 DEF InClasses

LEMMA PurchaseClasses ==
  ASSUME NEW cost, Classify(cost) \in 1 .. 8, NEW net, NEW code
  PROVE  InClasses(PurchaseLines(cost, net, code))
<1>1. \A n : Classed(Debit(cost, n))
  BY ClassedSides
<1>2. \A n : /\ Classed(Debit(2640, n)) /\ Classed(Credit(2440, n)) /\ Classed(Debit(4531, n))
             /\ Classed(Debit(4535, n)) /\ Classed(Credit(2614, n)) /\ Classed(Debit(2645, n))
  BY NamedSides DEF Named
<1>3. CASE code \in DOMAIN domesticRate
  <2>1. PICK x, y, z : PurchaseLines(cost, net, code) = <<Debit(cost, x), Debit(2640, y), Credit(2440, z)>>
    BY <1>3 DEF PurchaseLines
  <2> QED
    BY <1>1, <1>2, <2>1, ShortClasses
<1>4. CASE code \notin DOMAIN domesticRate /\ code \in {"PEU", "PIMP"}
  <2>1. PICK a, x, y : a \in {4531, 4535} /\ PurchaseLines(cost, net, code) =
          <<Debit(a, x), Credit(2440, x), Credit(2614, y), Debit(2645, y)>>
    BY <1>4 DEF PurchaseLines
  <2> QED
    BY <1>2, <2>1, ShortClasses
<1>5. CASE code \notin DOMAIN domesticRate /\ code \notin {"PEU", "PIMP"}
  <2>1. PurchaseLines(cost, net, code) = <<Debit(cost, net), Credit(2440, net)>>
    BY <1>5 DEF PurchaseLines
  <2> QED
    BY <1>1, <1>2, <2>1, ShortClasses
<1> QED
  BY <1>3, <1>4, <1>5

LEMMA CloseClasses ==
  ASSUME NEW tb, IsFiniteSet(DOMAIN tb), DOMAIN tb \subseteq Nat, \A a \in DOMAIN tb : tb[a] \in Amount
  PROVE  InClasses(CloseLines(tb))
<1>1. PICK s : s = CloseLines(tb)
  OBVIOUS
<1>2. s \in Seq(Line) /\ \A i \in 1 .. Len(s) : s[i].account = 2099 \/ IsResult(s[i].account)
  BY <1>1, CloseLinesType
<1>3. DOMAIN s = 1 .. Len(s)
  BY <1>2, SeqDomain
<1>4. Classify(2099) \in 1 .. 8
  BY NamedClasses DEF Named
<1>5. \A a : IsResult(a) => Classify(a) \in 1 .. 8
  BY DEF IsResult
<1> QED
  BY <1>1, <1>2, <1>3, <1>4, <1>5 DEF InClasses

LEMMA TwoAndMore ==
  ASSUME NEW k \in Line, NEW l \in Line, Classed(k), Classed(l), NEW t \in Seq(Line), InClasses(t)
  PROVE  InClasses(<<k, l>> \o t)
<1>1. PICK s : s = <<k, l>>
  OBVIOUS
<1>2. s \in Seq(Line) /\ InClasses(s)
  BY <1>1, ShortClasses, ShortSeqs
<1>3. InClasses(s \o t)
  BY <1>2, JoinClasses
<1> QED
  BY <1>1, <1>3

LEMMA SupplierPaymentClasses ==
  ASSUME NEW gross \in Amount, NEW sum \in Amount
  PROVE  InClasses(SupplierPaymentLines(gross, sum))
<1> DEFINE diff == Wrap(gross - sum)
           more == IF diff > 0 THEN <<Credit(3740, diff)>>
                   ELSE IF diff < 0 THEN <<Debit(3740, Wrap(-diff))>> ELSE << >>
<1>1. SupplierPaymentLines(gross, sum) = <<Debit(2440, gross), Credit(1930, sum)>> \o more
  BY DEF SupplierPaymentLines
<1>2. diff \in Amount /\ Wrap(-diff) \in Amount
  <2>1. gross - sum \in Int
    BY AmountsAre
  <2>2. diff \in Amount
    BY <2>1, WrapType
  <2> HIDE DEF diff
  <2>3. -diff \in Int
    BY <2>2, AmountsAre
  <2> QED
    BY <2>2, <2>3, WrapType
<1>3. /\ Debit(2440, gross) \in Line /\ Classed(Debit(2440, gross))
      /\ Credit(1930, sum) \in Line /\ Classed(Credit(1930, sum))
  BY DebitType, NamedSides DEF Named
<1>4. more \in Seq(Line) /\ InClasses(more)
  <2> HIDE DEF diff
  <2>1. /\ Credit(3740, diff) \in Line /\ Classed(Credit(3740, diff))
        /\ Debit(3740, Wrap(-diff)) \in Line /\ Classed(Debit(3740, Wrap(-diff)))
    BY <1>2, DebitType, NamedSides DEF Named
  <2>2. /\ <<Credit(3740, diff)>> \in Seq(Line) /\ InClasses(<<Credit(3740, diff)>>)
        /\ <<Debit(3740, Wrap(-diff))>> \in Seq(Line) /\ InClasses(<<Debit(3740, Wrap(-diff))>>)
        /\ << >> \in Seq(Line) /\ InClasses(<< >>)
    BY <2>1, ShortSeqs, ShortClasses
  <2>9. CASE diff > 0
    BY <2>2, <2>9
  <2>10. CASE ~(diff > 0) /\ diff < 0
    BY <2>2, <2>10
  <2>11. CASE ~(diff > 0) /\ ~(diff < 0)
    BY <2>2, <2>11
  <2> QED
    BY <2>9, <2>10, <2>11
<1> HIDE DEF more
<1>5. InClasses(<<Debit(2440, gross), Credit(1930, sum)>> \o more)
  BY <1>3, <1>4, TwoAndMore
<1> QED
  BY <1>1, <1>5

LEMMA SettlementClasses ==
  ASSUME NEW currency, NEW gross \in Amount, NEW paid \in Nat, NEW sum \in Amount
  PROVE  InClasses(Settlement(currency, gross, paid, sum).lines)
<1> DEFINE diff == Wrap(sum - gross)
           residual == Wrap(gross - Wrap(paid + sum))
           small == Abs(residual) < oresRoundingThreshold
           more == IF diff > 0 THEN <<Credit(3960, diff)>>
                   ELSE IF diff < 0 THEN <<Debit(7960, Wrap(-diff))>> ELSE << >>
           off == IF residual = 0 \/ ~small THEN << >>
                  ELSE IF residual > 0 THEN <<Credit(1510, residual), Debit(3740, residual)>>
                  ELSE <<Debit(1510, Wrap(-residual)), Credit(3740, Wrap(-residual))>>
<1>1. diff \in Amount /\ Wrap(-diff) \in Amount
  <2>1. sum - gross \in Int
    BY AmountsAre
  <2>2. diff \in Amount
    BY <2>1, WrapType
  <2> HIDE DEF diff
  <2>3. -diff \in Int
    BY <2>2, AmountsAre
  <2> QED
    BY <2>2, <2>3, WrapType
<1>2. residual \in Amount /\ Wrap(-residual) \in Amount
  <2>1. paid + sum \in Int
    BY AmountsAre
  <2>2. Wrap(paid + sum) \in Int
    BY <2>1, WrapType, AmountsAre
  <2>3. gross - Wrap(paid + sum) \in Int
    BY <2>2, AmountsAre
  <2>4. residual \in Amount
    BY <2>3, WrapType
  <2> HIDE DEF residual
  <2>5. -residual \in Int
    BY <2>4, AmountsAre
  <2> QED
    BY <2>4, <2>5, WrapType
<1>3. Settlement(currency, gross, paid, sum).lines =
        IF currency # "SEK" THEN <<Debit(1930, sum), Credit(1510, gross)>> \o more
        ELSE <<Debit(1930, sum), Credit(1510, sum)>> \o off
  BY DEF Settlement
<1> HIDE DEF diff, residual, small
<1>4. more \in Seq(Line) /\ InClasses(more)
  <2>1. /\ Credit(3960, diff) \in Line /\ Classed(Credit(3960, diff))
        /\ Debit(7960, Wrap(-diff)) \in Line /\ Classed(Debit(7960, Wrap(-diff)))
    BY <1>1, DebitType, NamedSides DEF Named
  <2>2. /\ <<Credit(3960, diff)>> \in Seq(Line) /\ InClasses(<<Credit(3960, diff)>>)
        /\ <<Debit(7960, Wrap(-diff))>> \in Seq(Line) /\ InClasses(<<Debit(7960, Wrap(-diff))>>)
        /\ << >> \in Seq(Line) /\ InClasses(<< >>)
    BY <2>1, ShortSeqs, ShortClasses
  <2>9. CASE diff > 0
    BY <2>2, <2>9
  <2>10. CASE ~(diff > 0) /\ diff < 0
    BY <2>2, <2>10
  <2>11. CASE ~(diff > 0) /\ ~(diff < 0)
    BY <2>2, <2>11
  <2> QED
    BY <2>9, <2>10, <2>11
<1>5. off \in Seq(Line) /\ InClasses(off)
  <2>1. /\ Credit(1510, residual) \in Line /\ Classed(Credit(1510, residual))
        /\ Debit(3740, residual) \in Line /\ Classed(Debit(3740, residual))
    BY <1>2, DebitType, NamedSides DEF Named
  <2>2. /\ Debit(1510, Wrap(-residual)) \in Line /\ Classed(Debit(1510, Wrap(-residual)))
        /\ Credit(3740, Wrap(-residual)) \in Line /\ Classed(Credit(3740, Wrap(-residual)))
    BY <1>2, DebitType, NamedSides DEF Named
  <2>3. /\ <<Credit(1510, residual), Debit(3740, residual)>> \in Seq(Line)
        /\ InClasses(<<Credit(1510, residual), Debit(3740, residual)>>)
        /\ <<Debit(1510, Wrap(-residual)), Credit(3740, Wrap(-residual))>> \in Seq(Line)
        /\ InClasses(<<Debit(1510, Wrap(-residual)), Credit(3740, Wrap(-residual))>>)
        /\ << >> \in Seq(Line) /\ InClasses(<< >>)
    BY <2>1, <2>2, ShortSeqs, ShortClasses
  <2>9. CASE residual = 0 \/ ~small
    BY <2>3, <2>9
  <2>10. CASE ~(residual = 0 \/ ~small) /\ residual > 0
    BY <2>3, <2>10
  <2>11. CASE ~(residual = 0 \/ ~small) /\ ~(residual > 0)
    BY <2>3, <2>11
  <2> QED
    BY <2>9, <2>10, <2>11
<1> HIDE DEF more, off
<1>6. /\ Debit(1930, sum) \in Line /\ Classed(Debit(1930, sum))
      /\ Credit(1510, gross) \in Line /\ Classed(Credit(1510, gross))
      /\ Credit(1510, sum) \in Line /\ Classed(Credit(1510, sum))
  BY DebitType, NamedSides DEF Named
<1>7. InClasses(<<Debit(1930, sum), Credit(1510, gross)>> \o more)
  BY <1>4, <1>6, TwoAndMore
<1>8. InClasses(<<Debit(1930, sum), Credit(1510, sum)>> \o off)
  BY <1>5, <1>6, TwoAndMore
<1> QED
  BY <1>3, <1>7, <1>8

\* The accounts that come from outside are in the classes of the chart.
ChartClasses == Classify(CostAccount) \in 1 .. 8 /\ \A m \in Manual : InClasses(m)

Booked == \A k \in DOMAIN book : InClasses(book[k].lines)

LEMMA PostClasses ==
  ASSUME SoundInv, ClassesInv, NEW series, NEW y, NEW lines, NEW applied, InClasses(lines),
         postVerification(series, y, lines, applied)
  PROVE  Booked'
<1> DEFINE v == [series |-> series, year |-> y, lines |-> lines, applied |-> applied]
<1>1. book \in Seq(Voucher) /\ book' = Append(book, v) /\ v.lines = lines
  BY DEF SoundInv, TypeOK, postVerification
<1> HIDE DEF v
<1>2. /\ DOMAIN book' = DOMAIN book \cup {Len(book) + 1}
      /\ book'[Len(book) + 1] = v /\ \A k \in DOMAIN book : book'[k] = book[k]
  BY <1>1, SeqDomain
<1> QED
  BY <1>1, <1>2 DEF ClassesInv, Booked

\* The vouchers that no document takes, and those of the handlers.
LEMMA ManualClasses ==
  ASSUME ChartClasses, SoundInv, ClassesInv, PostVerification \/ UndoVerification
  PROVE  Booked'
<1>1. CASE PostVerification
  <2>1. PICK y \in Years, series \in ManualSeries, lines \in Manual : postVerification(series, y, lines, FALSE)
    BY <1>1 DEF PostVerification
  <2> QED
    BY <2>1, PostClasses DEF ChartClasses
<1>2. CASE UndoVerification
  <2>1. PICK y \in Years, k \in DOMAIN book : postVerification("R", y, ReverseLines(book[k].lines), FALSE)
    BY <1>2 DEF UndoVerification
  <2>2. InClasses(ReverseLines(book[k].lines))
    BY BookType, UndoClasses DEF SoundInv, ClassesInv
  <2> QED
    BY <2>1, <2>2, PostClasses
<1> QED
  BY <1>1, <1>2

LEMMA HandlerClasses ==
  ASSUME SoundInv, ClassesInv, NEW w \in Worker,
         \/ CloseFiscalYear(w) \/ FinalizeInvoice(w) \/ CreditInvoice(w) \/ RecordPayment(w)
         \/ FinalizeSupplierInvoice(w) \/ RecordSupplierPayment(w)
  PROVE  Booked'
<1>1. CASE CloseFiscalYear(w)
  <2> DEFINE tb == TrialBalanceOfYear(task[w].year, task[w].seen)
  <2>1. postVerification("O", task[w].year, CloseLines(tb), TRUE)
    BY <1>1 DEF CloseFiscalYear
  <2>2. task[w].seen \in Nat /\ task[w].seen <= Len(book) /\ SumsFit(tb)
    BY <1>1, TaskType DEF CloseFiscalYear, SoundInv, TasksSound, TaskSound
  <2>3. IsFiniteSet(DOMAIN tb) /\ DOMAIN tb \subseteq Nat
    BY <2>2, YearBalance DEF SoundInv
  <2>4. \A a \in DOMAIN tb : tb[a] \in Amount
    BY <2>2 DEF SumsFit
  <2> HIDE DEF tb
  <2>5. InClasses(CloseLines(tb))
    BY <2>3, <2>4, CloseClasses
  <2> QED
    BY <2>1, <2>5, PostClasses
<1>2. CASE FinalizeInvoice(w) \/ CreditInvoice(w)
  <2>1. task[w].inv \in Inv /\ sale[task[w].inv].status # "none"
    BY <1>2, TaskType DEF FinalizeInvoice, CreditInvoice, SoundInv, TasksSound, TaskSound
  <2>2. InvoiceOK(sale[task[w].inv].says)
    BY <2>1, SaleLines, DraftsOK DEF SoundInv
  <2>3. PICK ls : ls = VerificationLines(sale[task[w].inv].says)
    OBVIOUS
  <2>4. InClasses(ls) /\ InClasses(ReverseLines(ls))
    BY <2>2, <2>3, SaleClasses
  <2>5. \E y, applied : postVerification("F", y, ls, applied) \/ postVerification("F", y, ReverseLines(ls), applied)
    BY <1>2, <2>3 DEF FinalizeInvoice, CreditInvoice
  <2> QED
    BY <2>4, <2>5, PostClasses
<1>3. CASE RecordPayment(w)
  <2> DEFINE i == task[w].inv
             ls == SettlementOf(i, task[w].paid, task[w].amount).lines
  <2>1. /\ i \in Inv /\ sale[i].status # "none"
        /\ task[w].amount \in Payments /\ task[w].paid \in 0 .. MaxAmount
    BY <1>3, TaskType DEF RecordPayment, SoundInv, TasksSound, TaskSound, Issued
  <2>2. GrossSEK(sale[i].says) \in Amount /\ task[w].amount \in Amount /\ task[w].paid \in Nat
    BY <2>1, SaleLines, BooksAssumption, AmountsAre DEF SoundInv
  <2>3. InClasses(ls)
    BY <2>2, SettlementClasses DEF SettlementOf
  <2>4. \E y : postVerification("B", y, ls, TRUE)
    BY <1>3 DEF RecordPayment
  <2> QED
    BY <2>3, <2>4, PostClasses
<1>4. CASE FinalizeSupplierInvoice(w) \/ RecordSupplierPayment(w)
  <2>1. \E series, y : postVerification(series, y, task[w].lines, TRUE)
    BY <1>4 DEF FinalizeSupplierInvoice, RecordSupplierPayment
  <2>2. task[w].step \in {"finalize", "pay"}
    BY <1>4 DEF FinalizeSupplierInvoice, RecordSupplierPayment
  <2>3. InClasses(task[w].lines)
    BY <2>2 DEF ClassesInv
  <2> QED
    BY <2>1, <2>3, PostClasses
<1> QED
  BY <1>1, <1>2, <1>3, <1>4

\* What a handler of bills has read.
BillTaskClasses(t) == t.step \in {"finalize", "pay"} => InClasses(t.lines)

LEMMA LooksClasses ==
  ASSUME ChartClasses, SoundInv, NEW w \in Worker, Looks(w)
  PROVE  \E t : BillTaskClasses(t) /\ task' = [task EXCEPT ![w] = t]
<1>1. CASE ReadDraftBill(w)
  <2>1. PICK b \in Bill : reads(w, [step |-> "finalize", bill |-> b,
                                   lines |-> PurchaseLines(CostAccount, bill[b].net, bill[b].code)])
    BY <1>1 DEF ReadDraftBill
  <2>2. PICK ls : ls = PurchaseLines(CostAccount, bill[b].net, bill[b].code)
    OBVIOUS
  <2>3. InClasses(ls)
    BY <2>2, PurchaseClasses DEF ChartClasses
  <2>4. task' = [task EXCEPT ![w] = [step |-> "finalize", bill |-> b, lines |-> ls]]
    BY <2>1, <2>2 DEF reads
  <2>5. BillTaskClasses([step |-> "finalize", bill |-> b, lines |-> ls])
    BY <2>3 DEF BillTaskClasses
  <2> QED
    BY <2>4, <2>5
<1>2. CASE ReadOpenBill(w)
  <2>1. PICK b \in Bill, sum \in Payments :
               reads(w, [step |-> "pay", bill |-> b,
                         lines |-> SupplierPaymentLines(Payable(bill[b].net, bill[b].code), sum)])
    BY <1>2 DEF ReadOpenBill
  <2>2. PICK ls : ls = SupplierPaymentLines(Payable(bill[b].net, bill[b].code), sum)
    OBVIOUS
  <2>3. bill[b].net \in Amount /\ sum \in Amount /\ CostAccount \in Nat
    BY BillNet, BooksAssumption DEF SoundInv
  <2>4. Payable(bill[b].net, bill[b].code) \in Amount
    BY <2>3, PurchaseLinesType
  <2>5. InClasses(ls)
    BY <2>2, <2>3, <2>4, SupplierPaymentClasses
  <2>6. task' = [task EXCEPT ![w] = [step |-> "pay", bill |-> b, lines |-> ls]]
    BY <2>1, <2>2 DEF reads
  <2>7. BillTaskClasses([step |-> "pay", bill |-> b, lines |-> ls])
    BY <2>5 DEF BillTaskClasses
  <2> QED
    BY <2>6, <2>7
<1>3. CASE ReadYear(w)
  <2>1. PICK y \in Years \ closed : task' = [task EXCEPT ![w] = [step |-> "close", year |-> y, seen |-> Len(book)]]
    BY <1>3 DEF ReadYear, reads
  <2>2. BillTaskClasses([step |-> "close", year |-> y, seen |-> Len(book)])
    BY DEF BillTaskClasses
  <2> QED
    BY <2>1, <2>2
<1>4. ASSUME NEW i, NEW kind \in {"issue", "credit"}, reads(w, [step |-> kind, inv |-> i])
      PROVE  \E t : BillTaskClasses(t) /\ task' = [task EXCEPT ![w] = t]
  <2>1. task' = [task EXCEPT ![w] = [step |-> kind, inv |-> i]]
    BY <1>4 DEF reads
  <2>2. BillTaskClasses([step |-> kind, inv |-> i])
    BY DEF BillTaskClasses
  <2> QED
    BY <2>1, <2>2
<1>7. CASE ReadDraftInvoice(w)
  BY <1>4, <1>7 DEF ReadDraftInvoice
<1>8. CASE ReadCreditable(w)
  BY <1>4, <1>8 DEF ReadCreditable
<1>5. CASE ReadPayable(w)
  <2>1. PICK i, sum, paid : task' = [task EXCEPT ![w] = [step |-> "settle", inv |-> i, amount |-> sum, paid |-> paid]]
    BY <1>5 DEF ReadPayable, reads
  <2>2. BillTaskClasses([step |-> "settle", inv |-> i, amount |-> sum, paid |-> paid])
    BY DEF BillTaskClasses
  <2> QED
    BY <2>1, <2>2
<1>6. CASE Fail(w)
  <2>1. task' = [task EXCEPT ![w] = Idle]
    BY <1>6 DEF Fail, done
  <2>2. BillTaskClasses(Idle)
    BY DEF BillTaskClasses, Idle
  <2> QED
    BY <2>1, <2>2
<1> QED
  BY <1>1, <1>2, <1>3, <1>5, <1>6, <1>7, <1>8 DEF Looks

\* No operation books on an account outside the classes.
LEMMA ClassesStep ==
  ASSUME ChartClasses, SoundInv, ClassesInv, [Next]_vars
  PROVE  ClassesInv'
<1> DEFINE Known == \A w \in Worker : BillTaskClasses(task'[w])
<1>1. ClassesInv' <=> Booked' /\ Known
  BY DEF ClassesInv, Booked, BillTaskClasses
<1>2. book' = book => Booked'
  BY DEF ClassesInv, Booked
<1>3. task' = task => Known
  BY DEF ClassesInv, BillTaskClasses
<1>4. ASSUME NEW w \in Worker, NEW t, BillTaskClasses(t), task' = [task EXCEPT ![w] = t] PROVE Known
  <2>1. \A q \in Worker : task'[q] = IF q = w THEN t ELSE task[q]
    BY <1>4 DEF SoundInv, TypeOK
  <2>2. \A q \in Worker : BillTaskClasses(task[q])
    BY DEF ClassesInv, BillTaskClasses
  <2> QED
    BY <1>4, <2>1, <2>2
<1>5. BillTaskClasses(Idle)
  BY DEF BillTaskClasses, Idle
<1> HIDE DEF Known
<1>6. ASSUME NEW w \in Worker, Looks(w) PROVE Booked' /\ Known
  <2>1. PICK t : BillTaskClasses(t) /\ task' = [task EXCEPT ![w] = t]
    BY <1>6, LooksClasses
  <2>2. book' = book
    BY <1>6, Untouched DEF Quiet
  <2> QED
    BY <1>2, <1>4, <2>1, <2>2
<1>7. ASSUME NEW w \in Worker,
             \/ CloseFiscalYear(w) \/ FinalizeInvoice(w) \/ CreditInvoice(w) \/ RecordPayment(w)
             \/ FinalizeSupplierInvoice(w) \/ RecordSupplierPayment(w)
      PROVE  Booked' /\ Known
  <2>1. task' = [task EXCEPT ![w] = Idle]
    BY <1>7 DEF CloseFiscalYear, FinalizeInvoice, CreditInvoice, RecordPayment, FinalizeSupplierInvoice,
       RecordSupplierPayment, done
  <2> QED
    BY <1>4, <1>5, <1>7, <2>1, HandlerClasses
<1>8. PostVerification \/ UndoVerification => Booked' /\ Known
  BY <1>3, ManualClasses, Untouched
<1>9. UNCHANGED vars \/ UnlockPeriod \/ CreateInvoice \/ DeleteDraftInvoice \/ CreateSupplierInvoice => Booked' /\ Known
  BY <1>2, <1>3, Untouched DEF Quiet
<1> QED
  BY <1>1, <1>6, <1>7, <1>8, <1>9, Steps

ResultInv == SoundInv /\ CloseInv /\ YearsZero /\ ClassesInv

\* Where all earlier years are closed or empty, the row "Arets resultat" of the
\* balance sheet of a year that is open, or closed and left alone, is the result
\* of that year, in the machine's integers and for any width of them: what the
\* accounts of a year leave on classes 1 and 2 is what its result accounts have,
\* and a bokslut moves it to 2099.  A bokslut that missed a voucher and a voucher
\* typed into series O are excluded, by the property.  The hypothesis on the chart
\* is needed: an account outside the classes 1 to 8 is in neither report.
THEOREM ResultRowIsTheYears ==
  ASSUME ChartClasses
  PROVE  Spec => []ResultRowAfterCloses
<1>1. Init => ResultInv
  <2> SUFFICES ASSUME Init PROVE ResultInv
    OBVIOUS
  <2>1. SoundInv
    BY SoundInit
  <2>2. DOMAIN book = {} /\ closed = {} /\ \A w \in Worker : task[w] = Idle
    BY EmptyBook DEF Init
  <2> QED
    BY <2>1, <2>2 DEF ResultInv, CloseInv, YearsZero, ClassesInv, Idle
<1>2. ResultInv /\ [Next]_vars => ResultInv'
  BY SoundStep, CloseStep, ClassesStep DEF ResultInv
<1>3. ResultInv => ResultRowAfterCloses
  BY ResultRows DEF ResultInv
<1> QED
  BY <1>1, <1>2, <1>3, PTL DEF Spec

-----------------------------------------------------------------------------
(* The momsdeklaration                                                     *)

\* Reversed lines take away what the lines add, on every account.
LEMMA ReverseNet ==
  ASSUME NEW s \in Seq(Line), NEW a
  PROVE  NetOn(ReverseLines(s), a) = -NetOn(s, a)
<1> DEFINE r == ReverseLines(s)
           f == [i \in DOMAIN s |-> On(s[i], a)]
           g == [i \in DOMAIN r |-> On(r[i], a)]
<1>1. /\ r \in Seq(Line) /\ Len(r) = Len(s)
      /\ \A i \in 1 .. Len(s) : r[i].account = s[i].account /\ r[i].debit = s[i].credit /\ r[i].credit = s[i].debit
  BY ReverseType, ReverseSwaps
<1>2. /\ DOMAIN r = DOMAIN s /\ IsFiniteSet(DOMAIN s) /\ DOMAIN s = 1 .. Len(s)
      /\ \A i \in DOMAIN s : s[i] \in Line
  BY <1>1, SeqDomain
<1>3. NetOn(s, a) = SumFunction(f) /\ NetOn(r, a) = SumFunction(g)
  BY <1>1, NetOnSum
<1> HIDE DEF r
<1>4. \A i \in DOMAIN s : f[i] \in Int /\ g[i] = -f[i]
  <2> SUFFICES ASSUME NEW i \in DOMAIN s PROVE On(s[i], a) \in Int /\ On(r[i], a) = -On(s[i], a)
    BY <1>2
  <2>1. s[i].debit \in Int /\ s[i].credit \in Int
    BY <1>2, LineType, AmountsAre
  <2>2. r[i].account = s[i].account /\ r[i].debit = s[i].credit /\ r[i].credit = s[i].debit
    BY <1>1, <1>2
  <2> QED
    BY <2>1, <2>2 DEF On
<1>5. DOMAIN f = DOMAIN s /\ DOMAIN g = DOMAIN s
  BY <1>2
<1> HIDE DEF f, g
<1>6. SumFunctionOnSet(g, DOMAIN s) = -SumFunctionOnSet(f, DOMAIN s)
  BY <1>2, <1>4, SumNegative
<1>7. NetOn(r, a) = -NetOn(s, a)
  BY <1>3, <1>5, <1>6 DEF SumFunction
<1> QED
  BY <1>7 DEF r

\* What the documents in force add to an account: the invoices that are
\* finalized or paid and the bills that are booked.
SaleOn(i, a) ==
  IF sale[i].status \in {"finalized", "paid"} THEN NetOn(VerificationLines(sale[i].says), a) ELSE 0

BillOn(b, a) ==
  IF bill[b].status \in {"finalized", "paid"}
  THEN NetOn(PurchaseLines(CostAccount, bill[b].net, bill[b].code), a) ELSE 0

SalesOn(a) == SumFunction([i \in Inv |-> SaleOn(i, a)])

BillsOn(a) == SumFunction([b \in Bill |-> BillOn(b, a)])

BookedOn(a) == BalanceOf(OfSeries({"F", "L"}), a)

\* The vouchers of the series F and L are those of the documents in force.
DocumentsBooked == \A a \in Nat : BookedOn(a) = SalesOn(a) + BillsOn(a)

\* A handler about to book a bill has the lines the bill calls for.
BillTasksInv ==
  \A w \in Worker :
    task[w].step = "finalize" =>
      LET b == bill[task[w].bill]
      IN  b.status # "none" /\ task[w].lines = PurchaseLines(CostAccount, b.net, b.code)

LEMMA SaleOnType ==
  ASSUME SoundInv, NEW i \in Inv, NEW a
  PROVE  SaleOn(i, a) \in Int
<1>1. CASE sale[i].status \in {"finalized", "paid"}
  <2>1. sale[i].says \in Drafts
    BY <1>1 DEF SoundInv, SaysKnown
  <2>2. VerificationLines(sale[i].says) \in Seq(Line)
    BY <2>1, DraftsOK, VerificationLinesSeq
  <2> QED
    BY <1>1, <2>2, NetOnType DEF SaleOn
<1>2. CASE ~(sale[i].status \in {"finalized", "paid"})
  BY <1>2 DEF SaleOn
<1> QED
  BY <1>1, <1>2

LEMMA BillOnType ==
  ASSUME SoundInv, NEW b \in Bill, NEW a
  PROVE  BillOn(b, a) \in Int
<1>1. bill[b].net \in Amount /\ CostAccount \in Nat
  BY BillNet, BooksAssumption DEF SoundInv
<1>2. PurchaseLines(CostAccount, bill[b].net, bill[b].code) \in Seq(Line)
  BY <1>1, PurchaseLinesType
<1>3. NetOn(PurchaseLines(CostAccount, bill[b].net, bill[b].code), a) \in Int
  BY <1>2, NetOnType
<1> QED
  BY <1>3 DEF BillOn

DocumentsTyped == \A a : (\A i \in Inv : SaleOn(i, a) \in Int) /\ (\A b \in Bill : BillOn(b, a) \in Int)

LEMMA DocumentTypes == SoundInv => DocumentsTyped
  BY SaleOnType, BillOnType DEF DocumentsTyped

LEMMA DocumentSums ==
  ASSUME SoundInv, NEW a
  PROVE  SalesOn(a) \in Int /\ BillsOn(a) \in Int /\ BookedOn(a) \in Int
<1> DEFINE f == [i \in Inv |-> SaleOn(i, a)]
           g == [b \in Bill |-> BillOn(b, a)]
<1>1. IsFiniteSet(Inv) /\ IsFiniteSet(Bill)
  BY BooksAssumption
<1>2. f \in [Inv -> Int] /\ g \in [Bill -> Int]
  BY SaleOnType, BillOnType
<1>3. SalesOn(a) = SumFunction(f) /\ BillsOn(a) = SumFunction(g)
  BY DEF SalesOn, BillsOn
<1> HIDE DEF f, g
<1>4. SumFunction(f) \in Int /\ SumFunction(g) \in Int
  BY <1>1, <1>2, SumFunctionType
<1> QED
  BY <1>3, <1>4, OfSeriesIs DEF BookedOn, SoundInv

\* One document moves.
LEMMA SalesOnChange ==
  ASSUME SoundInv, SoundInv', NEW i \in Inv, \A j \in Inv : j # i => sale'[j] = sale[j], NEW a
  PROVE  SalesOn(a)' = SalesOn(a) - SaleOn(i, a) + SaleOn(i, a)'
<1> DEFINE f == [j \in Inv |-> SaleOn(j, a)]
           g == [j \in Inv |-> SaleOn(j, a)']
<1>1. \A j \in Inv : SaleOn(j, a) \in Int
  BY SaleOnType
<1>2. \A j \in Inv : SaleOn(j, a)' \in Int
  <2>1. DocumentsTyped'
    BY DocumentTypes, PTL
  <2> QED
    BY <2>1 DEF DocumentsTyped
<1>3. \A j \in Inv : j # i => SaleOn(j, a)' = SaleOn(j, a)
  BY DEF SaleOn
<1>4. f \in [Inv -> Int] /\ g \in [Inv -> Int] /\ \A j \in Inv : j # i => g[j] = f[j]
  BY <1>1, <1>2, <1>3
<1>5. f[i] = SaleOn(i, a) /\ g[i] = SaleOn(i, a)'
  OBVIOUS
<1>6. SalesOn(a) = SumFunction(f) /\ SalesOn(a)' = SumFunction(g) /\ IsFiniteSet(Inv)
  BY BooksAssumption DEF SalesOn
<1> HIDE DEF f, g
<1>7. SumFunction(g) = SumFunction(f) - f[i] + g[i]
  BY <1>4, <1>6, SumChange
<1> QED
  BY <1>5, <1>6, <1>7

LEMMA BillsOnChange ==
  ASSUME SoundInv, SoundInv', NEW b \in Bill, \A c \in Bill : c # b => bill'[c] = bill[c], NEW a
  PROVE  BillsOn(a)' = BillsOn(a) - BillOn(b, a) + BillOn(b, a)'
<1> DEFINE f == [c \in Bill |-> BillOn(c, a)]
           g == [c \in Bill |-> BillOn(c, a)']
<1>1. \A c \in Bill : BillOn(c, a) \in Int
  BY BillOnType
<1>2. \A c \in Bill : BillOn(c, a)' \in Int
  <2>1. DocumentsTyped'
    BY DocumentTypes, PTL
  <2> QED
    BY <2>1 DEF DocumentsTyped
<1>3. \A c \in Bill : c # b => BillOn(c, a)' = BillOn(c, a)
  BY DEF BillOn
<1>4. f \in [Bill -> Int] /\ g \in [Bill -> Int] /\ \A c \in Bill : c # b => g[c] = f[c]
  BY <1>1, <1>2, <1>3
<1>5. f[b] = BillOn(b, a) /\ g[b] = BillOn(b, a)'
  OBVIOUS
<1>6. BillsOn(a) = SumFunction(f) /\ BillsOn(a)' = SumFunction(g) /\ IsFiniteSet(Bill)
  BY BooksAssumption DEF BillsOn
<1> HIDE DEF f, g
<1>7. SumFunction(g) = SumFunction(f) - f[b] + g[b]
  BY <1>4, <1>6, SumChange
<1> QED
  BY <1>5, <1>6, <1>7

LEMMA DocumentsStay ==
  ASSUME DocumentsBooked, \A a \in Nat : BookedOn(a)' = BookedOn(a), sale' = sale, bill' = bill
  PROVE  DocumentsBooked'
<1> SUFFICES ASSUME NEW a \in Nat PROVE (BookedOn(a) = SalesOn(a) + BillsOn(a))'
  BY DEF DocumentsBooked
<1>1. SalesOn(a)' = SalesOn(a) /\ BillsOn(a)' = BillsOn(a)
  BY DEF SalesOn, BillsOn, SaleOn, BillOn
<1> QED
  BY <1>1 DEF DocumentsBooked

LEMMA DocumentOn ==
  ASSUME SoundInv, SoundInv', NEW series, NEW y, NEW lines, Documented(series, y, lines), NEW a
  PROVE  /\ BookedOn(a) \in Int
         /\ series \in {"F", "L"} => BookedOn(a)' = BookedOn(a) + NetOn(lines, a)
         /\ series \notin {"F", "L"} => BookedOn(a)' = BookedOn(a)
<1>1. TypeOK /\ TypeOK'
  BY DEF SoundInv
<1>2. /\ BookedOn(a) \in Int
      /\ BookedOn(a)' = BookedOn(a) + IF series \in {"F", "L"} THEN NetOn(lines, a) ELSE 0
  BY <1>1, DocumentAdds DEF BookedOn
<1> QED
  BY <1>2

\* A voucher that no document took.
LEMMA AsideStays ==
  ASSUME SoundInv, SoundInv', DocumentsBooked, Aside, sale' = sale, bill' = bill
  PROVE  DocumentsBooked'
<1>1. TypeOK /\ TypeOK'
  BY DEF SoundInv
<1>2. \A a \in Nat : BookedOn(a)' = BookedOn(a)
  BY <1>1, AsideAdds DEF BookedOn
<1> QED
  BY <1>2, DocumentsStay

\* Invoice i moves, and every account with it.
LEMMA SaleBooks ==
  ASSUME SoundInv, SoundInv', DocumentsBooked, NEW i \in Inv, bill' = bill,
         \A j \in Inv : j # i => sale'[j] = sale[j],
         \A a \in Nat : BookedOn(a)' = BookedOn(a) - SaleOn(i, a) + SaleOn(i, a)'
  PROVE  DocumentsBooked'
<1> SUFFICES ASSUME NEW a \in Nat PROVE (BookedOn(a) = SalesOn(a) + BillsOn(a))'
  BY DEF DocumentsBooked
<1>1. BillsOn(a)' = BillsOn(a)
  BY DEF BillsOn, BillOn
<1>2. SalesOn(a)' = SalesOn(a) - SaleOn(i, a) + SaleOn(i, a)'
  BY SalesOnChange
<1>3. SalesOn(a) \in Int /\ BillsOn(a) \in Int /\ BookedOn(a) \in Int /\ SaleOn(i, a) \in Int
  BY DocumentSums, SaleOnType
<1>4. SaleOn(i, a)' \in Int
  <2>1. DocumentsTyped'
    BY DocumentTypes, PTL
  <2> QED
    BY <2>1 DEF DocumentsTyped
<1>5. BookedOn(a) = SalesOn(a) + BillsOn(a) /\ BookedOn(a)' = BookedOn(a) - SaleOn(i, a) + SaleOn(i, a)'
  BY DEF DocumentsBooked
<1>6. BookedOn(a)' = SalesOn(a)' + BillsOn(a)'
  BY <1>1, <1>2, <1>3, <1>4, <1>5
<1> QED
  BY <1>6

LEMMA BillBooks ==
  ASSUME SoundInv, SoundInv', DocumentsBooked, NEW b \in Bill, sale' = sale,
         \A c \in Bill : c # b => bill'[c] = bill[c],
         \A a \in Nat : BookedOn(a)' = BookedOn(a) - BillOn(b, a) + BillOn(b, a)'
  PROVE  DocumentsBooked'
<1> SUFFICES ASSUME NEW a \in Nat PROVE (BookedOn(a) = SalesOn(a) + BillsOn(a))'
  BY DEF DocumentsBooked
<1>1. SalesOn(a)' = SalesOn(a)
  BY DEF SalesOn, SaleOn
<1>2. BillsOn(a)' = BillsOn(a) - BillOn(b, a) + BillOn(b, a)'
  BY BillsOnChange
<1>3. SalesOn(a) \in Int /\ BillsOn(a) \in Int /\ BookedOn(a) \in Int /\ BillOn(b, a) \in Int
  BY DocumentSums, BillOnType
<1>4. BillOn(b, a)' \in Int
  <2>1. DocumentsTyped'
    BY DocumentTypes, PTL
  <2> QED
    BY <2>1 DEF DocumentsTyped
<1>5. BookedOn(a) = SalesOn(a) + BillsOn(a) /\ BookedOn(a)' = BookedOn(a) - BillOn(b, a) + BillOn(b, a)'
  BY DEF DocumentsBooked
<1>6. BookedOn(a)' = SalesOn(a)' + BillsOn(a)'
  BY <1>1, <1>2, <1>3, <1>4, <1>5
<1> QED
  BY <1>6

\* An invoice that is created or deleted.
LEMMA DraftsBooked ==
  ASSUME SoundInv, SoundInv', DocumentsBooked, CreateInvoice \/ DeleteDraftInvoice
  PROVE  DocumentsBooked'
<1>0. sale \in [Inv -> Sale] /\ bill' = bill /\ book' = book /\ \A i \in Inv : sale[i] \in Sale
  BY Untouched DEF SoundInv, TypeOK
<1>1. PICK i \in Inv : /\ sale[i].status \in {"none", "draft"} /\ sale'[i].status \in {"draft", "deleted"}
                       /\ \A j \in Inv : j # i => sale'[j] = sale[j]
  <2>1. CASE CreateInvoice
    <3>1. PICK i \in Inv, d \in Drafts :
                 sale[i].status = "none" /\ sale' = [sale EXCEPT ![i].status = "draft", ![i].says = d]
      BY <2>1 DEF CreateInvoice
    <3>2. sale'[i].status = "draft" /\ \A j \in Inv : j # i => sale'[j] = sale[j]
      BY <1>0, <3>1 DEF Sale
    <3> QED
      BY <3>1, <3>2
  <2>2. CASE DeleteDraftInvoice
    <3>1. PICK i \in Inv : sale[i].status = "draft" /\ sale' = [sale EXCEPT ![i].status = "deleted"]
      BY <2>2 DEF DeleteDraftInvoice
    <3>2. sale'[i].status = "deleted" /\ \A j \in Inv : j # i => sale'[j] = sale[j]
      BY <1>0, <3>1 DEF Sale
    <3> QED
      BY <3>1, <3>2
  <2> QED
    BY <2>1, <2>2
<1>2. \A a \in Nat : SaleOn(i, a) = 0 /\ SaleOn(i, a)' = 0
  BY <1>1 DEF SaleOn
<1>3. \A a \in Nat : BookedOn(a)' = BookedOn(a) /\ BookedOn(a) \in Int
  BY <1>0, BookSame, DocumentSums DEF BookedOn
<1>4. \A a \in Nat : BookedOn(a)' = BookedOn(a) - SaleOn(i, a) + SaleOn(i, a)'
  BY <1>2, <1>3
<1> QED
  BY <1>0, <1>1, <1>4, SaleBooks

\* One that is finalized.
LEMMA FinalizeBooked ==
  ASSUME SoundInv, SoundInv', DocumentsBooked, bill' = bill,
         NEW i \in Inv, NEW y \in Years, sale[i].status = "draft",
         sale' = [sale EXCEPT ![i] = [sale[i] EXCEPT !.status = "finalized"]],
         Documented("F", y, VerificationLines(sale[i].says))
  PROVE  DocumentsBooked'
<1>1. sale \in [Inv -> Sale] /\ sale[i] \in Sale
  BY DEF SoundInv, TypeOK
<1>2. sale'[i] = [sale[i] EXCEPT !.status = "finalized"] /\ \A j \in Inv : j # i => sale'[j] = sale[j]
  BY <1>1
<1>3. sale'[i].status = "finalized" /\ sale'[i].says = sale[i].says
  BY <1>1, <1>2 DEF Sale
<1>4. \A a \in Nat : SaleOn(i, a) = 0 /\ SaleOn(i, a)' = NetOn(VerificationLines(sale[i].says), a)
  BY <1>3 DEF SaleOn
<1>5. \A a \in Nat : /\ BookedOn(a) \in Int
                     /\ BookedOn(a)' = BookedOn(a) + NetOn(VerificationLines(sale[i].says), a)
  BY DocumentOn
<1>6. \A a \in Nat : BookedOn(a)' = BookedOn(a) - SaleOn(i, a) + SaleOn(i, a)'
  BY <1>4, <1>5
<1> QED
  BY <1>2, <1>6, SaleBooks

\* One that is credited.
LEMMA CreditBooked ==
  ASSUME SoundInv, SoundInv', DocumentsBooked, bill' = bill,
         NEW i \in Inv, NEW y \in Years, sale[i].status \in {"finalized", "paid"},
         sale' = [sale EXCEPT ![i] = [sale[i] EXCEPT !.status = "credited"]],
         Documented("F", y, ReverseLines(VerificationLines(sale[i].says)))
  PROVE  DocumentsBooked'
<1>1. sale \in [Inv -> Sale] /\ sale[i] \in Sale
  BY DEF SoundInv, TypeOK
<1>2. sale'[i] = [sale[i] EXCEPT !.status = "credited"] /\ \A j \in Inv : j # i => sale'[j] = sale[j]
  BY <1>1
<1>3. sale'[i].status = "credited"
  BY <1>1, <1>2 DEF Sale
<1>4. VerificationLines(sale[i].says) \in Seq(Line)
  BY SaleLines DEF SoundInv
<1>5. \A a \in Nat : SaleOn(i, a) = NetOn(VerificationLines(sale[i].says), a) /\ SaleOn(i, a)' = 0
  BY <1>3 DEF SaleOn
<1>6. \A a \in Nat : /\ BookedOn(a) \in Int /\ SaleOn(i, a) \in Int
                     /\ BookedOn(a)' = BookedOn(a) + NetOn(ReverseLines(VerificationLines(sale[i].says)), a)
  BY DocumentOn, SaleOnType
<1>7. \A a \in Nat : NetOn(ReverseLines(VerificationLines(sale[i].says)), a) = -SaleOn(i, a)
  BY <1>4, <1>5, ReverseNet
<1>8. \A a \in Nat : BookedOn(a)' = BookedOn(a) - SaleOn(i, a) + SaleOn(i, a)'
  BY <1>5, <1>6, <1>7
<1> QED
  BY <1>2, <1>8, SaleBooks

\* One that takes a payment: it stays in force, or out of it.
LEMMA PaymentBooked ==
  ASSUME SoundInv, SoundInv', DocumentsBooked, NEW w \in Worker, RecordPayment(w)
  PROVE  DocumentsBooked'
<1>1. PICK i \in Inv : \E sum, paid, s, row : PaidWith(i, sum, paid, s, row)
  BY PaymentRow
<1>2. PICK sum, paid, s, row : PaidWith(i, sum, paid, s, row)
  BY <1>1
<1>3. /\ s.full => sale[i].status = "finalized"
      /\ row.says = sale[i].says /\ row.status = IF s.full THEN "paid" ELSE sale[i].status
      /\ sale' = [sale EXCEPT ![i] = row]
  BY <1>2 DEF PaidWith
<1>4. PICK y \in Years : Documented("B", y, s.lines)
  BY <1>2 DEF PaidWith
<1>5. sale'[i] = row /\ (\A j \in Inv : j # i => sale'[j] = sale[j]) /\ bill' = bill
  BY <1>3, Untouched DEF SoundInv, TypeOK
<1>6. row.status \in {"finalized", "paid"} <=> sale[i].status \in {"finalized", "paid"}
  BY <1>3
<1>7. \A a \in Nat : SaleOn(i, a)' = SaleOn(i, a)
  BY <1>3, <1>5, <1>6 DEF SaleOn
<1>8. \A a \in Nat : BookedOn(a) \in Int /\ BookedOn(a)' = BookedOn(a) /\ SaleOn(i, a) \in Int
  BY <1>4, DocumentOn, SaleOnType
<1>9. \A a \in Nat : BookedOn(a)' = BookedOn(a) - SaleOn(i, a) + SaleOn(i, a)'
  BY <1>7, <1>8
<1> QED
  BY <1>5, <1>9, SaleBooks

\* A bill that is entered, booked or paid.
LEMMA BillsBooked ==
  ASSUME SoundInv, SoundInv', BillTasksInv, DocumentsBooked,
         CreateSupplierInvoice \/ \E w \in Worker : FinalizeSupplierInvoice(w) \/ RecordSupplierPayment(w)
  PROVE  DocumentsBooked'
<1>0. bill \in [Bill -> BillRow] /\ \A b \in Bill : bill[b] \in BillRow
  BY DEF SoundInv, TypeOK
<1>1. \A b \in Bill, a \in Nat : BookedOn(a) \in Int /\ BillOn(b, a) \in Int
  BY DocumentSums, BillOnType
<1>2. CASE CreateSupplierInvoice
  <2>1. PICK b \in Bill, p \in Purchases :
               /\ bill[b].status = "none"
               /\ bill' = [bill EXCEPT ![b] = [status |-> "draft", net |-> p.net, code |-> p.code]]
    BY <1>2 DEF CreateSupplierInvoice
  <2>2. bill'[b].status = "draft" /\ sale' = sale /\ \A c \in Bill : c # b => bill'[c] = bill[c]
    BY <1>0, <1>2, <2>1, Untouched
  <2>3. \A a \in Nat : BillOn(b, a) = 0 /\ BillOn(b, a)' = 0
    BY <2>1, <2>2 DEF BillOn
  <2>4. \A a \in Nat : BookedOn(a)' = BookedOn(a)
    BY <1>2, Untouched, BookSame DEF BookedOn
  <2>5. \A a \in Nat : BookedOn(a)' = BookedOn(a) - BillOn(b, a) + BillOn(b, a)'
    BY <1>1, <2>3, <2>4
  <2> QED
    BY <2>2, <2>5, BillBooks
<1>3. ASSUME NEW w \in Worker, FinalizeSupplierInvoice(w) \/ RecordSupplierPayment(w) PROVE DocumentsBooked'
  <2>1. task[w].step \in {"finalize", "pay"} /\ sale' = sale
    BY <1>3, Untouched DEF FinalizeSupplierInvoice, RecordSupplierPayment
  <2>2. PICK b \in Bill : task[w].bill = b
    BY <2>1, TaskType DEF SoundInv
  <2>3. PICK to \in {"finalized", "paid"} :
               /\ bill' = [bill EXCEPT ![b].status = to]
               /\ bill[b].status = IF to = "finalized" THEN "draft" ELSE "finalized"
               /\ to = "finalized" => FinalizeSupplierInvoice(w)
               /\ to = "paid" => RecordSupplierPayment(w)
    BY <1>3, <2>2 DEF FinalizeSupplierInvoice, RecordSupplierPayment, SetBill
  <2>4. bill'[b] = [bill[b] EXCEPT !.status = to] /\ \A c \in Bill : c # b => bill'[c] = bill[c]
    BY <1>0, <2>3
  <2>5. bill'[b].status = to /\ bill'[b].net = bill[b].net /\ bill'[b].code = bill[b].code
    <3>1. PICK r \in BillRow : r = bill[b]
      BY <1>0
    <3>2. bill'[b] = [r EXCEPT !.status = to]
      BY <2>4, <3>1
    <3> QED
      BY <3>1, <3>2 DEF BillRow
  <2>6. CASE to = "finalized"
    <3>1. PICK y \in Years : Documented("L", y, task[w].lines)
      BY <2>3, <2>6, SupplierDocuments
    <3>2. task[w].lines = PurchaseLines(CostAccount, bill[b].net, bill[b].code)
      BY <2>2, <2>3, <2>6 DEF FinalizeSupplierInvoice, BillTasksInv
    <3>3. \A a \in Nat : BillOn(b, a) = 0 /\ BillOn(b, a)' = NetOn(task[w].lines, a)
      BY <2>3, <2>5, <2>6, <3>2 DEF BillOn
    <3>4. \A a \in Nat : BookedOn(a)' = BookedOn(a) + NetOn(task[w].lines, a)
      BY <3>1, DocumentOn
    <3>5. \A a \in Nat : BookedOn(a)' = BookedOn(a) - BillOn(b, a) + BillOn(b, a)'
      BY <1>1, <3>3, <3>4
    <3> QED
      BY <2>1, <2>4, <3>5, BillBooks
  <2>7. CASE to = "paid"
    <3>1. PICK y \in Years : Documented("LB", y, task[w].lines)
      BY <2>3, <2>7, SupplierDocuments
    <3>2. \A a \in Nat : BillOn(b, a)' = BillOn(b, a)
      BY <2>3, <2>5, <2>7 DEF BillOn
    <3>3. \A a \in Nat : BookedOn(a)' = BookedOn(a)
      BY <3>1, DocumentOn
    <3>4. \A a \in Nat : BookedOn(a)' = BookedOn(a) - BillOn(b, a) + BillOn(b, a)'
      BY <1>1, <3>2, <3>3
    <3> QED
      BY <2>1, <2>4, <3>4, BillBooks
  <2> QED
    BY <2>6, <2>7
<1> QED
  BY <1>2, <1>3

LEMMA DocumentsStep ==
  ASSUME SoundInv, SoundInv', BillTasksInv, DocumentsBooked, [Next]_vars
  PROVE  DocumentsBooked'
<1>1. ASSUME book' = book, sale' = sale, bill' = bill PROVE DocumentsBooked'
  <2>1. \A a \in Nat : BookedOn(a)' = BookedOn(a)
    BY <1>1, BookSame DEF BookedOn
  <2> QED
    BY <1>1, <2>1, DocumentsStay
<1>2. ASSUME NEW w \in Worker, CloseFiscalYear(w) PROVE DocumentsBooked'
  <2>1. PICK y, lines : Documented("O", y, lines)
    BY <1>2, CloseDocuments
  <2>2. \A a \in Nat : BookedOn(a)' = BookedOn(a)
    BY <2>1, DocumentOn
  <2> QED
    BY <1>2, <2>2, DocumentsStay, Untouched
<1>3. ASSUME NEW w \in Worker, FinalizeInvoice(w) \/ CreditInvoice(w) PROVE DocumentsBooked'
  <2>1. bill' = bill
    BY <1>3, Untouched
  <2> QED
    BY <1>3, <2>1, IssuedRow, AsideStays, FinalizeBooked, CreditBooked
<1>4. CASE PostVerification \/ UndoVerification
  BY <1>4, ManualAside, AsideStays, Untouched
<1> QED
  BY <1>1, <1>2, <1>3, <1>4, DraftsBooked, PaymentBooked, BillsBooked, Steps, Untouched DEF Quiet

LEMMA BillTasksStep ==
  ASSUME SoundInv, SoundInv', BillTasksInv, [Next]_vars
  PROVE  BillTasksInv'
<1> DEFINE Agrees(t) ==
             t.step = "finalize" =>
               /\ bill'[t.bill].status # "none"
               /\ t.lines = PurchaseLines(CostAccount, bill'[t.bill].net, bill'[t.bill].code)
<1>0. task \in [Worker -> Task] /\ bill \in [Bill -> BillRow]
  BY DEF SoundInv, TypeOK
<1>1. SUFFICES ASSUME NEW w \in Worker PROVE Agrees(task'[w])
  <2>1. \A w \in Worker : Agrees(task'[w])
    BY <1>1
  <2> QED
    BY <2>1 DEF BillTasksInv
<1>2. CASE task'[w] = Idle
  BY <1>2 DEF Idle
<1>3. CASE task'[w] = task[w]
  <2> SUFFICES ASSUME task[w].step = "finalize" PROVE Agrees(task'[w])
    BY <1>3
  <2>1. PICK b \in Bill : b = task[w].bill
    BY TaskType DEF SoundInv
  <2>2. bill[b].status # "none" /\ task[w].lines = PurchaseLines(CostAccount, bill[b].net, bill[b].code)
    BY <2>1 DEF BillTasksInv
  <2>3. bill'[b].status # "none" /\ bill'[b].net = bill[b].net /\ bill'[b].code = bill[b].code
    BY <2>2, BillsKeep
  <2> QED
    BY <1>3, <2>1, <2>2, <2>3
<1>4. ASSUME NEW v \in Worker, ReadDraftBill(v), task'[w] # task[w] PROVE Agrees(task'[w])
  <2>1. PICK b \in Bill :
               /\ bill[b].status = "draft"
               /\ reads(v, [step |-> "finalize", bill |-> b,
                            lines |-> PurchaseLines(CostAccount, bill[b].net, bill[b].code)])
    BY <1>4 DEF ReadDraftBill
  <2>2. task'[w] = [step |-> "finalize", bill |-> b,
                    lines |-> PurchaseLines(CostAccount, bill[b].net, bill[b].code)]
    BY <1>0, <1>4, <2>1 DEF reads
  <2>3. bill' = bill
    BY <2>1 DEF reads
  <2> QED
    BY <2>1, <2>2, <2>3
<1>5. ASSUME NEW v \in Worker,
             ReadOpenBill(v) \/ ReadYear(v) \/ ReadDraftInvoice(v) \/ ReadCreditable(v) \/ ReadPayable(v),
             task'[w] # task[w]
      PROVE  Agrees(task'[w])
  <2>1. task'[w].step # "finalize"
    BY <1>0, <1>5 DEF ReadOpenBill, ReadYear, ReadDraftInvoice, ReadCreditable, ReadPayable, reads
  <2> QED
    BY <2>1
<1>6. ASSUME NEW v \in Worker,
             \/ Fail(v) \/ CloseFiscalYear(v) \/ FinalizeInvoice(v) \/ CreditInvoice(v) \/ RecordPayment(v)
             \/ FinalizeSupplierInvoice(v) \/ RecordSupplierPayment(v)
      PROVE  task'[w] = task[w] \/ task'[w] = Idle
  <2>1. task' = [task EXCEPT ![v] = Idle]
    BY <1>6 DEF Fail, CloseFiscalYear, FinalizeInvoice, CreditInvoice, RecordPayment, FinalizeSupplierInvoice,
       RecordSupplierPayment, done
  <2> QED
    BY <1>0, <2>1
<1> HIDE DEF Agrees
<1> QED
  BY <1>2, <1>3, <1>4, <1>5, <1>6, Steps, Untouched DEF Looks

\* What the sales lines of a code add to an account.
CodeOn(d, c, a) ==
  IF c \notin CodesOf(d) THEN 0
  ELSE (IF a = SalesAccountForCode[c] THEN -NetSEK(d, c) ELSE 0)
       + (IF VatSEK(d, c) # 0 /\ a = OutputAccount[c] THEN -VatSEK(d, c) ELSE 0)

LEMMA ConcatOne ==
  ASSUME NEW s \in Seq(Line), NEW l \in Line, NEW a
  PROVE  s \o <<l>> \in Seq(Line) /\ NetOn(s \o <<l>>, a) = NetOn(s, a) + On(l, a)
<1> DEFINE t == s \o <<l>>
<1>1. t = Append(s, l) /\ Append(s, l) \in Seq(Line)
  BY AppendProperties, AppendIsConcat
<1> HIDE DEF t
<1>2. t \in Seq(Line) /\ NetOn(t, a) = NetOn(s, a) + On(l, a)
  BY <1>1, NetOnAppend, Zenon
<1> QED
  BY <1>2 DEF t

LEMMA ConcatNone ==
  ASSUME NEW s \in Seq(Line)
  PROVE  s \o << >> = s
  BY ConcatEmptySeq

LEMMA SalesNetOn ==
  ASSUME NEW d, InvoiceOK(d), NEW c \in Range(codeOrder), NEW s \in Seq(Line), NEW a \in Nat
  PROVE  /\ s \o SalesLines(d, c) \in Seq(Line) /\ CodeOn(d, c, a) \in Int
         /\ NetOn(s \o SalesLines(d, c), a) = NetOn(s, a) + CodeOn(d, c, a)
<1>1. c \in {"SE25", "SE12", "SE06", "RCEU", "EXP"}
  BY DEF codeOrder, Range
<1>2. SalesAccountForCode[c] \in Nat
  BY <1>1 DEF SalesAccountForCode
<1>3. NetSEK(d, c) \in Amount /\ VatSEK(d, c) \in Amount /\ NetSEK(d, c) \in Int /\ VatSEK(d, c) \in Int
  BY CodeType, AmountsAre
<1> DEFINE k == Credit(SalesAccountForCode[c], NetSEK(d, c))
           l == Credit(OutputAccount[c], VatSEK(d, c))
<1>4. k \in Line /\ On(k, a) = (IF a = SalesAccountForCode[c] THEN -NetSEK(d, c) ELSE 0)
  BY <1>2, <1>3, DebitType DEF On, Credit
<1>5. VatSEK(d, c) # 0 => l \in Line /\ On(l, a) = (IF a = OutputAccount[c] THEN -VatSEK(d, c) ELSE 0)
  <2>1. VatSEK(d, c) # 0 => c \in {"SE25", "SE12", "SE06"}
    BY <1>1, CodeType DEF Rate
  <2>2. c \in {"SE25", "SE12", "SE06"} => OutputAccount[c] \in Nat
    BY DEF OutputAccount
  <2> QED
    BY <1>3, <2>1, <2>2, DebitType DEF On, Credit
<1>6. SalesLines(d, c) = IF c \notin CodesOf(d) THEN << >>
                         ELSE <<k>> \o IF VatSEK(d, c) # 0 THEN <<l>> ELSE << >>
  BY DEF SalesLines
<1>7. NetOn(s, a) \in Int
  BY NetOnType
<1> HIDE DEF k, l
<1>8. CASE c \notin CodesOf(d)
  <2>1. SalesLines(d, c) = << >> /\ CodeOn(d, c, a) = 0
    BY <1>6, <1>8 DEF CodeOn
  <2>2. s \o SalesLines(d, c) = s
    BY <2>1, ConcatNone
  <2> QED
    BY <1>7, <2>1, <2>2
<1>9. CASE c \in CodesOf(d) /\ VatSEK(d, c) # 0
  <2>1. SalesLines(d, c) = <<k>> \o <<l>>
    BY <1>6, <1>9, Zenon
  <2>2. <<k>> \in Seq(Line) /\ <<l>> \in Seq(Line)
    BY <1>4, <1>5, <1>9, ShortSeqs
  <2>3. s \o (<<k>> \o <<l>>) = (s \o <<k>>) \o <<l>>
    BY <2>2, ConcatAssociative
  <2>4. s \o SalesLines(d, c) = (s \o <<k>>) \o <<l>>
    BY <2>1, <2>3, Zenon
  <2> DEFINE t == s \o <<k>>
  <2>5. t \in Seq(Line) /\ NetOn(t, a) = NetOn(s, a) + On(k, a)
    BY <1>4, ConcatOne
  <2> HIDE DEF t
  <2>6. t \o <<l>> \in Seq(Line) /\ NetOn(t \o <<l>>, a) = NetOn(t, a) + On(l, a)
    BY <1>5, <1>9, <2>5, ConcatOne
  <2>7. CodeOn(d, c, a) = On(k, a) + On(l, a) /\ On(k, a) \in Int /\ On(l, a) \in Int
    BY <1>3, <1>4, <1>5, <1>9 DEF CodeOn
  <2>8. s \o SalesLines(d, c) = t \o <<l>>
    BY <2>4 DEF t
  <2>9. NetOn(t \o <<l>>, a) = NetOn(s, a) + CodeOn(d, c, a) /\ CodeOn(d, c, a) \in Int
    BY <1>7, <2>5, <2>6, <2>7
  <2> QED
    BY <2>6, <2>8, <2>9, Zenon
<1>10. CASE c \in CodesOf(d) /\ VatSEK(d, c) = 0
  <2>1. SalesLines(d, c) = <<k>>
    BY <1>6, <1>10
  <2>2. s \o <<k>> \in Seq(Line) /\ NetOn(s \o <<k>>, a) = NetOn(s, a) + On(k, a)
    BY <1>4, ConcatOne
  <2>3. CodeOn(d, c, a) = On(k, a) /\ On(k, a) \in Int
    BY <1>3, <1>4, <1>10 DEF CodeOn
  <2> QED
    BY <2>1, <2>2, <2>3, Zenon
<1> QED
  BY <1>8, <1>9, <1>10

\* What an invoice's voucher adds to an account: the gross on 1510 and the
\* parts of its codes.
LEMMA InvoiceNet ==
  ASSUME NEW d, InvoiceOK(d), NEW a \in Nat, a # 1510
  PROVE  NetOn(VerificationLines(d), a)
           = CodeOn(d, "SE25", a) + CodeOn(d, "SE12", a) + CodeOn(d, "SE06", a)
             + CodeOn(d, "RCEU", a) + CodeOn(d, "EXP", a)
<1> DEFINE g == GrossOf(d, CodesOf(d) \cap Range(codeOrder))
           k == Debit(1510, g)
           s0 == <<k>>
           s1 == s0 \o SalesLines(d, "SE25")
           s2 == s1 \o SalesLines(d, "SE12")
           s3 == s2 \o SalesLines(d, "SE06")
           s4 == s3 \o SalesLines(d, "RCEU")
           s5 == s4 \o SalesLines(d, "EXP")
<1>1. VerificationLines(d) = s5
  BY DEF VerificationLines, codeOrder
<1>2. {"SE25", "SE12", "SE06", "RCEU", "EXP"} \subseteq Range(codeOrder)
  BY DEF codeOrder, Range
<1>3. g \in Amount
  BY GrossType
<1> HIDE DEF g
<1>4. k \in Line /\ k.account # a
  BY <1>3, DebitType DEF Debit
<1> HIDE DEF k
<1>5. s0 \in Seq(Line) /\ NetOn(s0, a) = 0
  <2>1. s0 \in Seq(Line) /\ \A i \in 1 .. Len(s0) : s0[i].account # a
    BY <1>4, ShortSeqs
  <2> HIDE DEF s0
  <2> QED
    BY <2>1, NetOnNone
<1> HIDE DEF s0
<1>6. s1 \in Seq(Line) /\ NetOn(s1, a) = NetOn(s0, a) + CodeOn(d, "SE25", a) /\ CodeOn(d, "SE25", a) \in Int
  BY <1>2, <1>5, SalesNetOn
<1> HIDE DEF s1
<1>7. s2 \in Seq(Line) /\ NetOn(s2, a) = NetOn(s1, a) + CodeOn(d, "SE12", a) /\ CodeOn(d, "SE12", a) \in Int
  BY <1>2, <1>6, SalesNetOn
<1> HIDE DEF s2
<1>8. s3 \in Seq(Line) /\ NetOn(s3, a) = NetOn(s2, a) + CodeOn(d, "SE06", a) /\ CodeOn(d, "SE06", a) \in Int
  BY <1>2, <1>7, SalesNetOn
<1> HIDE DEF s3
<1>9. s4 \in Seq(Line) /\ NetOn(s4, a) = NetOn(s3, a) + CodeOn(d, "RCEU", a) /\ CodeOn(d, "RCEU", a) \in Int
  BY <1>2, <1>8, SalesNetOn
<1> HIDE DEF s4
<1>10. s5 \in Seq(Line) /\ NetOn(s5, a) = NetOn(s4, a) + CodeOn(d, "EXP", a) /\ CodeOn(d, "EXP", a) \in Int
  BY <1>2, <1>9, SalesNetOn
<1> HIDE DEF s5
<1> QED
  BY <1>1, <1>5, <1>6, <1>7, <1>8, <1>9, <1>10

\* The VAT of the lines with a code, if the invoice has any.
CodeVAT(d, c) == IF c \in CodesOf(d) THEN VatSEK(d, c) ELSE 0

LEMMA CodeOnOutput ==
  ASSUME NEW d, InvoiceOK(d), NEW c \in Range(codeOrder), NEW a \in {2611, 2621, 2631}
  PROVE  /\ CodeVAT(d, c) \in Int /\ (c \in {"RCEU", "EXP"} => CodeVAT(d, c) = 0)
         /\ CodeOn(d, c, a) = IF c \in DOMAIN OutputAccount /\ OutputAccount[c] = a THEN -CodeVAT(d, c) ELSE 0
<1>1. c \in {"SE25", "SE12", "SE06", "RCEU", "EXP"}
  BY DEF codeOrder, Range
<1>2. SalesAccountForCode[c] \in {3001, 3002, 3003, 3308, 3305}
  BY <1>1 DEF SalesAccountForCode
<1>3. VatSEK(d, c) \in Int /\ (c \in {"RCEU", "EXP"} => VatSEK(d, c) = 0)
  <2>1. c \in {"RCEU", "EXP"} => Rate(c) = 0
    BY DEF Rate
  <2> QED
    BY <2>1, CodeType, AmountsAre
<1>4. DOMAIN OutputAccount = {"SE25", "SE12", "SE06"}
  BY DEF OutputAccount
<1>5. CodeOn(d, c, a) = IF c \notin CodesOf(d) THEN 0
                        ELSE 0 + (IF VatSEK(d, c) # 0 /\ a = OutputAccount[c] THEN -VatSEK(d, c) ELSE 0)
  BY <1>2 DEF CodeOn
<1>6. CodeVAT(d, c) \in Int /\ (c \in {"RCEU", "EXP"} => CodeVAT(d, c) = 0)
  BY <1>3 DEF CodeVAT
<1>7. CASE c \notin CodesOf(d)
  <2>1. CodeVAT(d, c) = 0 /\ CodeOn(d, c, a) = 0
    BY <1>5, <1>7 DEF CodeVAT
  <2>2. -CodeVAT(d, c) = 0
    <3>1. CodeVAT(d, c) \in Int /\ CodeVAT(d, c) <= 0 /\ CodeVAT(d, c) >= 0
      BY <2>1
    <3> QED
      BY <3>1
  <2> QED
    BY <1>6, <2>1, <2>2
<1>8. CASE c \in CodesOf(d)
  <2>1. CodeVAT(d, c) = VatSEK(d, c)
    BY <1>8 DEF CodeVAT
  <2> QED
    BY <1>1, <1>3, <1>4, <1>5, <1>6, <1>8, <2>1
<1> QED
  BY <1>7, <1>8

\* An invoice puts its VAT, and nothing else, on the three output accounts, and
\* nothing on the accounts of purchases.
LEMMA InvoiceOutput ==
  ASSUME NEW d, InvoiceOK(d), CodesOf(d) \subseteq Range(codeOrder)
  PROVE  /\ NetOn(VerificationLines(d), 2611) + NetOn(VerificationLines(d), 2621) + NetOn(VerificationLines(d), 2631)
              = -SumFunction([c \in CodesOf(d) |-> VatSEK(d, c)])
         /\ \A a \in {2614, 2615, 2640, 2641, 2645, 4531, 4535} : NetOn(VerificationLines(d), a) = 0
<1>0. Range(codeOrder) = {"SE25", "SE12", "SE06", "RCEU", "EXP"}
  BY DEF codeOrder, Range
<1>1. \A a \in {2611, 2621, 2631} :
        NetOn(VerificationLines(d), a) = CodeOn(d, "SE25", a) + CodeOn(d, "SE12", a) + CodeOn(d, "SE06", a)
                                         + CodeOn(d, "RCEU", a) + CodeOn(d, "EXP", a)
  BY InvoiceNet
<1> DEFINE v25 == CodeVAT(d, "SE25")
           v12 == CodeVAT(d, "SE12")
           v06 == CodeVAT(d, "SE06")
<1>2. v25 \in Int /\ v12 \in Int /\ v06 \in Int /\ CodeVAT(d, "RCEU") = 0 /\ CodeVAT(d, "EXP") = 0
  BY <1>0, CodeOnOutput
<1>3. NetOn(VerificationLines(d), 2611) = -v25
  <2>1. /\ CodeOn(d, "SE25", 2611) = -v25 /\ CodeOn(d, "SE12", 2611) = 0 /\ CodeOn(d, "SE06", 2611) = 0
        /\ CodeOn(d, "RCEU", 2611) = 0 /\ CodeOn(d, "EXP", 2611) = 0
    BY <1>0, CodeOnOutput DEF OutputAccount
  <2> HIDE DEF v25
  <2> QED
    BY <1>1, <1>2, <2>1
<1>4. NetOn(VerificationLines(d), 2621) = -v12
  <2>1. /\ CodeOn(d, "SE25", 2621) = 0 /\ CodeOn(d, "SE12", 2621) = -v12 /\ CodeOn(d, "SE06", 2621) = 0
        /\ CodeOn(d, "RCEU", 2621) = 0 /\ CodeOn(d, "EXP", 2621) = 0
    BY <1>0, CodeOnOutput DEF OutputAccount
  <2> HIDE DEF v12
  <2> QED
    BY <1>1, <1>2, <2>1
<1>5. NetOn(VerificationLines(d), 2631) = -v06
  <2>1. /\ CodeOn(d, "SE25", 2631) = 0 /\ CodeOn(d, "SE12", 2631) = 0 /\ CodeOn(d, "SE06", 2631) = -v06
        /\ CodeOn(d, "RCEU", 2631) = 0 /\ CodeOn(d, "EXP", 2631) = 0
    BY <1>0, CodeOnOutput DEF OutputAccount
  <2> HIDE DEF v06
  <2> QED
    BY <1>1, <1>2, <2>1
<1>6. SumFunction([c \in CodesOf(d) |-> VatSEK(d, c)]) = v25 + v12 + v06
  <2> DEFINE C == CodesOf(d)
             R == {"SE25", "SE12", "SE06", "RCEU", "EXP"}
             f == [c \in C |-> VatSEK(d, c)]
             g == [c \in R |-> CodeVAT(d, c)]
  <2>1. C \subseteq R /\ IsFiniteSet(R) /\ IsFiniteSet(C) /\ DOMAIN f = C
    <3>1. IsFiniteSet(C)
      BY CodesFinite
    <3>2. R = ((({"SE25"} \cup {"SE12"}) \cup {"SE06"}) \cup {"RCEU"}) \cup {"EXP"}
      OBVIOUS
    <3>3. IsFiniteSet(((({"SE25"} \cup {"SE12"}) \cup {"SE06"}) \cup {"RCEU"}) \cup {"EXP"})
      BY FS_Singleton, FS_Union
    <3>4. IsFiniteSet(R)
      BY <3>2, <3>3, Zenon
    <3> QED
      BY <1>0, <3>1, <3>4
  <2>2. \A c \in C : g[c] = f[c] /\ f[c] \in Int /\ g[c] \in Int
    BY <2>1, CodeType, AmountsAre DEF CodeVAT
  <2>3. \A c \in R \ C : g[c] = 0
    BY DEF CodeVAT
  <2>4. g["SE25"] = v25 /\ g["SE12"] = v12 /\ g["SE06"] = v06 /\ g["RCEU"] = 0 /\ g["EXP"] = 0
    BY <1>2
  <2> HIDE DEF f, g, C, v25, v12, v06
  <2>5. SumFunctionOnSet(g, C) = SumFunctionOnSet(f, C)
    BY <2>1, <2>2, SumSame
  <2>6. SumFunctionOnSet(g, R) = SumFunctionOnSet(g, C)
    BY <2>1, <2>2, <2>3, SumPad
  <2>7. SumFunctionOnSet(g, R) = v25 + v12 + v06
    <3> DEFINE B == {"SE12", "SE06"}
               A == {"SE25", "SE12", "SE06"}
    <3>1. IsFiniteSet(A) /\ IsFiniteSet(B) /\ A \subseteq R /\ A \ {"SE25"} = B
      BY <2>1, FS_Subset
    <3>2. \A c \in A : g[c] \in Int
      BY <1>2, <2>4
    <3>3. \A c \in R \ A : g[c] = 0
      BY <2>4
    <3>4. SumFunctionOnSet(g, R) = SumFunctionOnSet(g, A)
      BY <2>1, <3>1, <3>2, <3>3, SumPad
    <3>5. SumFunctionOnSet(g, A) = g["SE25"] + SumFunctionOnSet(g, A \ {"SE25"})
      BY <3>1, <3>2, SumWithout
    <3>6. SumFunctionOnSet(g, B) = g["SE12"] + SumFunctionOnSet(g, B \ {"SE12"})
      BY <3>1, <3>2, SumWithout
    <3>7. SumFunctionOnSet(g, {"SE06"}) = g["SE06"] + SumFunctionOnSet(g, {"SE06"} \ {"SE06"})
      <4>1. IsFiniteSet({"SE06"}) /\ (\A c \in {"SE06"} : g[c] \in Int) /\ "SE06" \in {"SE06"}
        BY <3>2, FS_Singleton
      <4> QED
        BY <4>1, SumWithout
    <3>8. B \ {"SE12"} = {"SE06"} /\ {"SE06"} \ {"SE06"} = {} /\ SumFunctionOnSet(g, {}) = 0
      BY SumOfNone
    <3>9. SumFunctionOnSet(g, A) = g["SE25"] + SumFunctionOnSet(g, B)
      BY <3>1, <3>5, Zenon
    <3>10. SumFunctionOnSet(g, B) = g["SE12"] + SumFunctionOnSet(g, {"SE06"})
      BY <3>6, <3>8, Zenon
    <3>11. SumFunctionOnSet(g, {"SE06"}) = g["SE06"] + 0
      BY <3>7, <3>8, Zenon
    <3> QED
      BY <1>2, <2>4, <3>4, <3>9, <3>10, <3>11
  <2>8. SumFunction(f) = v25 + v12 + v06
    BY <2>1, <2>5, <2>6, <2>7 DEF SumFunction
  <2> QED
    BY <2>8 DEF f, C
<1>7. \A a \in {2614, 2615, 2640, 2641, 2645, 4531, 4535} : NetOn(VerificationLines(d), a) = 0
  <2> SUFFICES ASSUME NEW a \in {2614, 2615, 2640, 2641, 2645, 4531, 4535}
               PROVE  NetOn(VerificationLines(d), a) = 0
    OBVIOUS
  <2> DEFINE v == VerificationLines(d)
  <2>1. BooksSale(d)
    BY VerificationLinesType
  <2>2. v \in Seq(Line) /\ v[1].account = 1510 /\ \A i \in 1 .. Len(v) : i > 1 => v[i].account \in SaleAccounts
    BY <2>1 DEF BooksSale, Debit
  <2> HIDE DEF v
  <2>3. \A i \in 1 .. Len(v) : i = 1 \/ i > 1
    BY <2>2, SeqDomain
  <2>4. \A i \in 1 .. Len(v) : v[i].account # a
    BY <2>2, <2>3 DEF SaleAccounts
  <2>5. NetOn(v, a) = 0
    BY <2>2, <2>4, NetOnNone
  <2> QED
    BY <2>5 DEF v
<1> HIDE DEF v25, v12, v06
<1>8. -v25 + -v12 + -v06 = -(v25 + v12 + v06)
  BY <1>2
<1> QED
  BY <1>3, <1>4, <1>5, <1>6, <1>7, <1>8

\* A bill puts its VAT on 2640, or that of a reverse charge on 2614 and 2645 and
\* its net on 4531 or 4535, and nothing else on the accounts of the return.
CostIsNoVAT == CostAccount \notin {2611, 2621, 2631, 2614, 2615, 2640, 2641, 2645, 4531, 4535}

DomesticVAT(net, code) == IF code \in DOMAIN domesticRate THEN VAT(net, domesticRate[code]) ELSE 0

ReverseBase(net, code) == IF code \in {"PEU", "PIMP"} THEN net ELSE 0

LEMMA BillMoms ==
  ASSUME CostIsNoVAT, NEW net \in Amount, NEW code
  PROVE  LET ls == PurchaseLines(CostAccount, net, code)
         IN  /\ NetOn(ls, 2640) = DomesticVAT(net, code) /\ DomesticVAT(net, code) \in Int
             /\ VAT(ReverseBase(net, code), 25) \in Int /\ ReverseBase(net, code) \in Int
             /\ NetOn(ls, 2645) = VAT(ReverseBase(net, code), 25)
             /\ NetOn(ls, 2614) = -VAT(ReverseBase(net, code), 25)
             /\ NetOn(ls, 4531) + NetOn(ls, 4535) = ReverseBase(net, code)
             /\ \A a \in {2611, 2621, 2631, 2615, 2641} : NetOn(ls, a) = 0
<1> DEFINE ls == PurchaseLines(CostAccount, net, code)
           Moms == {2611, 2621, 2631, 2614, 2615, 2640, 2641, 2645, 4531, 4535}
<1>0. CostAccount \in Nat /\ CostAccount \notin Moms /\ net \in Int
  BY BooksAssumption, AmountsAre DEF CostIsNoVAT
<1>1. VAT(0, 25) = 0
  <2>1. 0 \in Amount /\ 0 * 25 = 0
    BY AmountsAre
  <2>2. Wrap(0) = 0 /\ Round(0, 100) = 0
    BY <2>1, WrapId, RoundZero
  <2> QED
    BY <2>1, <2>2 DEF VAT
<1>2. CASE code \in DOMAIN domesticRate
  <2> DEFINE vat == VAT(net, domesticRate[code])
             gross == Wrap(net + vat)
             k == Debit(CostAccount, net)
             l == Debit(2640, vat)
             m == Credit(2440, gross)
  <2>1. domesticRate[code] \in Nat /\ code \notin {"PEU", "PIMP"}
    BY <1>2 DEF domesticRate
  <2>2. vat \in Amount /\ gross \in Amount /\ vat \in Int
    BY <2>1, VatType, AmountsAre
  <2>3. ls = <<k, l, m>> /\ DomesticVAT(net, code) = vat /\ ReverseBase(net, code) = 0
    BY <1>2, <2>1 DEF PurchaseLines, DomesticVAT, ReverseBase
  <2> HIDE DEF vat, gross
  <2>4. k \in Line /\ l \in Line /\ m \in Line
    BY <1>0, <2>2, DebitType
  <2>5. /\ m.account = 2440 /\ l.account = 2640 /\ k.account = CostAccount
        /\ l.debit = vat /\ l.credit = 0
    BY DEF Debit, Credit
  <2> HIDE DEF k, l, m, ls
  <2>6. \A a \in Moms : On(k, a) = 0 /\ On(m, a) = 0 /\ On(l, a) = IF a = 2640 THEN vat ELSE 0
    BY <1>0, <2>2, <2>5 DEF On
  <2>7. \A a : NetOn(ls, a) = On(k, a) + On(l, a) + On(m, a)
    BY <2>3, <2>4, NetOnThree
  <2>8. \A a \in Moms : NetOn(ls, a) = IF a = 2640 THEN vat ELSE 0
    BY <2>2, <2>6, <2>7
  <2>9. /\ NetOn(ls, 2640) = vat /\ NetOn(ls, 2645) = 0 /\ NetOn(ls, 2614) = -0
        /\ NetOn(ls, 4531) + NetOn(ls, 4535) = 0 /\ \A a \in {2611, 2621, 2631, 2615, 2641} : NetOn(ls, a) = 0
    BY <2>8
  <2> QED
    BY <1>1, <2>2, <2>3, <2>9 DEF ls
<1>3. CASE code \notin DOMAIN domesticRate /\ code \in {"PEU", "PIMP"}
  <2> DEFINE vat == VAT(net, 25)
             c == IF code = "PIMP" THEN 4531 ELSE 4535
             k == Debit(c, net)
             l == Credit(2440, net)
             m == Credit(2614, vat)
             n == Debit(2645, vat)
  <2>1. c \in {4531, 4535} /\ c \in Nat
    OBVIOUS
  <2>2. vat \in Amount /\ vat \in Int
    BY VatType, AmountsAre
  <2>3. ls = <<k, l, m, n>> /\ DomesticVAT(net, code) = 0 /\ ReverseBase(net, code) = net
    BY <1>3 DEF PurchaseLines, DomesticVAT, ReverseBase
  <2> HIDE DEF c
  <2>4. k \in Line /\ l \in Line /\ m \in Line /\ n \in Line
    BY <2>1, <2>2, DebitType
  <2>5. /\ l.account = 2440 /\ k.account = c /\ m.account = 2614 /\ n.account = 2645
        /\ k.debit = net /\ k.credit = 0 /\ m.debit = 0 /\ m.credit = vat /\ n.debit = vat /\ n.credit = 0
    BY DEF Debit, Credit
  <2> HIDE DEF k, l, m, n, ls, vat
  <2>6. \A a \in Moms : /\ On(k, a) = IF a = c THEN net ELSE 0
                        /\ On(l, a) = 0
                        /\ On(m, a) = IF a = 2614 THEN -vat ELSE 0
                        /\ On(n, a) = IF a = 2645 THEN vat ELSE 0
    BY <1>0, <2>1, <2>2, <2>5 DEF On
  <2>7. \A a : NetOn(ls, a) = On(k, a) + On(l, a) + On(m, a) + On(n, a)
    BY <2>3, <2>4, NetOnFour
  <2>8. /\ NetOn(ls, 2640) = 0 /\ NetOn(ls, 2645) = vat /\ NetOn(ls, 2614) = -vat
        /\ \A a \in {2611, 2621, 2631, 2615, 2641} : NetOn(ls, a) = 0
    BY <1>0, <2>1, <2>2, <2>6, <2>7
  <2>9. NetOn(ls, 4531) + NetOn(ls, 4535) = net
    <3>1. \A a \in {4531, 4535} : NetOn(ls, a) = IF a = c THEN net ELSE 0
      BY <1>0, <2>6, <2>7
    <3> QED
      BY <1>0, <2>1, <3>1
  <2> QED
    BY <1>0, <2>2, <2>3, <2>8, <2>9 DEF ls, vat
<1>4. CASE code \notin DOMAIN domesticRate /\ code \notin {"PEU", "PIMP"}
  <2> DEFINE k == Debit(CostAccount, net)
             l == Credit(2440, net)
  <2>1. ls = <<k, l>> /\ DomesticVAT(net, code) = 0 /\ ReverseBase(net, code) = 0
    BY <1>4 DEF PurchaseLines, DomesticVAT, ReverseBase
  <2>2. k \in Line /\ l \in Line
    BY <1>0, DebitType
  <2>7. k.account = CostAccount /\ l.account = 2440
    BY DEF Debit, Credit
  <2> HIDE DEF k, l, ls
  <2>3. \A a \in Moms : On(k, a) = 0 /\ On(l, a) = 0
    BY <1>0, <2>7 DEF On
  <2>4. \A a : NetOn(ls, a) = On(k, a) + On(l, a)
    BY <2>1, <2>2, NetOnTwo
  <2>5. \A a \in Moms : NetOn(ls, a) = 0
    BY <2>3, <2>4
  <2>6. /\ NetOn(ls, 2640) = 0 /\ NetOn(ls, 2645) = 0 /\ NetOn(ls, 2614) = -0
        /\ NetOn(ls, 4531) + NetOn(ls, 4535) = 0 /\ \A a \in {2611, 2621, 2631, 2615, 2641} : NetOn(ls, a) = 0
    BY <2>5
  <2> QED
    BY <1>1, <2>1, <2>6 DEF ls
<1> QED
  BY <1>2, <1>3, <1>4

OutputVAT == SumFunction([i \in Inv |-> InvoiceVAT(i)])

InputVAT == SumFunction([b \in Bill |-> BillVAT(b)])

ReverseVAT == SumFunction([b \in Bill |-> VAT(Acquired(b), 25)])

ReverseNetSum == SumFunction([b \in Bill |-> Acquired(b)])

\* Invoice by invoice: the VAT is on the output accounts.
LEMMA SaleMoms ==
  ASSUME KnownCodes, SoundInv, NEW i \in Inv
  PROVE  /\ SaleOn(i, 2611) + SaleOn(i, 2621) + SaleOn(i, 2631) = -InvoiceVAT(i) /\ InvoiceVAT(i) \in Int
         /\ \A a \in {2614, 2615, 2640, 2641, 2645, 4531, 4535} : SaleOn(i, a) = 0
<1>1. CASE sale[i].status \in {"finalized", "paid"}
  <2>1. PICK d \in Drafts : d = sale[i].says
    BY <1>1 DEF SoundInv, SaysKnown
  <2>2. InvoiceOK(d) /\ CodesOf(d) \subseteq Range(codeOrder)
    BY DraftsOK DEF KnownCodes
  <2> DEFINE f == [c \in CodesOf(d) |-> VatSEK(d, c)]
  <2>3. InvoiceVAT(i) = SumFunction(f) /\ \A a : SaleOn(i, a) = NetOn(VerificationLines(d), a)
    BY <1>1, <2>1 DEF InvoiceVAT, SaleOn
  <2>4. SumFunction(f) \in Int
    <3>1. f \in [CodesOf(d) -> Int]
      BY <2>2, CodeType, AmountsAre
    <3> HIDE DEF f
    <3> QED
      BY <2>2, <3>1, CodesFinite, SumFunctionType
  <2>5. /\ NetOn(VerificationLines(d), 2611) + NetOn(VerificationLines(d), 2621) + NetOn(VerificationLines(d), 2631)
              = -SumFunction(f)
        /\ \A a \in {2614, 2615, 2640, 2641, 2645, 4531, 4535} : NetOn(VerificationLines(d), a) = 0
    BY <2>2, InvoiceOutput
  <2> HIDE DEF f
  <2> QED
    BY <2>3, <2>4, <2>5
<1>2. CASE ~(sale[i].status \in {"finalized", "paid"})
  <2>1. InvoiceVAT(i) = 0 /\ \A a : SaleOn(i, a) = 0
    BY <1>2 DEF InvoiceVAT, SaleOn
  <2>2. 0 + 0 + 0 = -InvoiceVAT(i)
    <3>1. InvoiceVAT(i) \in Int /\ InvoiceVAT(i) <= 0 /\ InvoiceVAT(i) >= 0
      BY <2>1
    <3> QED
      BY <3>1
  <2> QED
    BY <2>1, <2>2
<1> QED
  BY <1>1, <1>2

\* Bill by bill.
LEMMA BillsMoms ==
  ASSUME CostIsNoVAT, SoundInv, NEW b \in Bill
  PROVE  /\ BillOn(b, 2640) = BillVAT(b) /\ BillVAT(b) \in Int
         /\ BillOn(b, 2645) = VAT(Acquired(b), 25) /\ BillOn(b, 2614) = -VAT(Acquired(b), 25)
         /\ VAT(Acquired(b), 25) \in Int /\ Acquired(b) \in Int
         /\ BillOn(b, 4535) + BillOn(b, 4531) = Acquired(b)
         /\ \A a \in {2611, 2621, 2631, 2615, 2641} : BillOn(b, a) = 0
<1>1. bill[b].net \in Amount
  BY BillNet DEF SoundInv
<1>2. CASE bill[b].status \in {"finalized", "paid"}
  <2> DEFINE ls == PurchaseLines(CostAccount, bill[b].net, bill[b].code)
             net == bill[b].net
             code == bill[b].code
  <2>1. \A a : BillOn(b, a) = NetOn(ls, a)
    BY <1>2 DEF BillOn
  <2>2. BillVAT(b) = DomesticVAT(net, code) /\ Acquired(b) = ReverseBase(net, code)
    BY <1>2 DEF BillVAT, Acquired, DomesticVAT, ReverseBase
  <2>3. /\ NetOn(ls, 2640) = DomesticVAT(net, code) /\ DomesticVAT(net, code) \in Int
        /\ VAT(ReverseBase(net, code), 25) \in Int /\ ReverseBase(net, code) \in Int
        /\ NetOn(ls, 2645) = VAT(ReverseBase(net, code), 25)
        /\ NetOn(ls, 2614) = -VAT(ReverseBase(net, code), 25)
        /\ NetOn(ls, 4531) + NetOn(ls, 4535) = ReverseBase(net, code)
        /\ \A a \in {2611, 2621, 2631, 2615, 2641} : NetOn(ls, a) = 0
    BY <1>1, BillMoms
  <2>4. NetOn(ls, 4531) \in Int /\ NetOn(ls, 4535) \in Int
    <3>1. CostAccount \in Nat
      BY BooksAssumption
    <3>2. ls \in Seq(Line)
      BY <1>1, <3>1, PurchaseLinesType
    <3> HIDE DEF ls
    <3> QED
      BY <3>2, NetOnType
  <2> HIDE DEF ls, net, code
  <2>5. NetOn(ls, 4535) + NetOn(ls, 4531) = ReverseBase(net, code)
    BY <2>3, <2>4
  <2> QED
    BY <2>1, <2>2, <2>3, <2>5
<1>3. CASE ~(bill[b].status \in {"finalized", "paid"})
  <2>1. BillVAT(b) = 0 /\ Acquired(b) = 0 /\ \A a : BillOn(b, a) = 0
    BY <1>3 DEF BillVAT, Acquired, BillOn
  <2>2. VAT(0, 25) = 0
    <3>1. 0 \in Amount /\ 0 * 25 = 0
      BY AmountsAre
    <3>2. Wrap(0) = 0 /\ Round(0, 100) = 0
      BY <3>1, WrapId, RoundZero
    <3> QED
      BY <3>1, <3>2 DEF VAT
  <2>3. 0 = -VAT(Acquired(b), 25)
    <3>1. VAT(Acquired(b), 25) \in Int /\ VAT(Acquired(b), 25) <= 0 /\ VAT(Acquired(b), 25) >= 0
      BY <2>1, <2>2
    <3> QED
      BY <3>1
  <2> QED
    BY <2>1, <2>2, <2>3
<1> QED
  BY <1>2, <1>3

\* What the documents in force leave on the accounts of the return.
LEMMA ReturnAccounts ==
  ASSUME KnownCodes, CostIsNoVAT, SoundInv, DocumentsBooked
  PROVE  /\ BookedOn(2611) + BookedOn(2621) + BookedOn(2631) = -OutputVAT
         /\ BookedOn(2640) = InputVAT /\ BookedOn(2645) = ReverseVAT /\ BookedOn(2614) = -ReverseVAT
         /\ BookedOn(4535) + BookedOn(4531) = ReverseNetSum
         /\ BookedOn(2615) = 0 /\ BookedOn(2641) = 0
         /\ OutputVAT \in Int /\ InputVAT \in Int /\ ReverseVAT \in Int /\ ReverseNetSum \in Int
<1> DEFINE s(a) == [i \in Inv |-> SaleOn(i, a)]
           t(a) == [b \in Bill |-> BillOn(b, a)]
           out == [i \in Inv |-> InvoiceVAT(i)]
           in == [b \in Bill |-> BillVAT(b)]
           rev == [b \in Bill |-> VAT(Acquired(b), 25)]
           acq == [b \in Bill |-> Acquired(b)]
<1>0. IsFiniteSet(Inv) /\ IsFiniteSet(Bill)
  BY BooksAssumption
<1>1. \A a : s(a) \in [Inv -> Int] /\ t(a) \in [Bill -> Int]
  BY SaleOnType, BillOnType
<1>2. out \in [Inv -> Int] /\ in \in [Bill -> Int] /\ rev \in [Bill -> Int] /\ acq \in [Bill -> Int]
  BY SaleMoms, BillsMoms
<1>3. /\ OutputVAT = SumFunction(out) /\ InputVAT = SumFunction(in)
      /\ ReverseVAT = SumFunction(rev) /\ ReverseNetSum = SumFunction(acq)
  BY DEF OutputVAT, InputVAT, ReverseVAT, ReverseNetSum
<1>4. \A a \in Nat : BookedOn(a) = SumFunction(s(a)) + SumFunction(t(a))
  BY DEF DocumentsBooked, SalesOn, BillsOn
<1>5. /\ \A i \in Inv : s(2611)[i] + s(2621)[i] + s(2631)[i] = -out[i]
      /\ \A a \in {2614, 2615, 2640, 2641, 2645, 4531, 4535} : \A i \in Inv : s(a)[i] = 0
      /\ \A a : DOMAIN s(a) = Inv
  BY SaleMoms
<1>6. /\ \A b \in Bill : t(2640)[b] = in[b] /\ t(2645)[b] = rev[b] /\ t(2614)[b] = -rev[b]
                         /\ acq[b] = t(4535)[b] + t(4531)[b]
      /\ \A a \in {2611, 2621, 2631, 2615, 2641} : \A b \in Bill : t(a)[b] = 0
      /\ \A a : DOMAIN t(a) = Bill
  BY BillsMoms
<1> HIDE DEF s, t, out, in, rev, acq
<1>7. /\ SumFunction(out) \in Int /\ SumFunction(in) \in Int /\ SumFunction(rev) \in Int /\ SumFunction(acq) \in Int
      /\ \A a : SumFunction(s(a)) \in Int /\ SumFunction(t(a)) \in Int
  BY <1>0, <1>1, <1>2, SumFunctionType
<1>8. \A a \in {2614, 2615, 2640, 2641, 2645, 4531, 4535} : SumFunction(s(a)) = 0
  BY <1>0, <1>5, SumsNothing
<1>9. \A a \in {2611, 2621, 2631, 2615, 2641} : SumFunction(t(a)) = 0
  BY <1>0, <1>6, SumsNothing
<1>10. SumFunction(s(2611)) + SumFunction(s(2621)) + SumFunction(s(2631)) = -SumFunction(out)
  <2> DEFINE p == [i \in Inv |-> s(2611)[i] + s(2621)[i]]
             q == [i \in Inv |-> p[i] + s(2631)[i]]
  <2>1. \A i \in Inv : s(2611)[i] \in Int /\ s(2621)[i] \in Int /\ s(2631)[i] \in Int
    BY <1>1
  <2>2. p \in [Inv -> Int] /\ \A i \in Inv : p[i] = s(2611)[i] + s(2621)[i]
    BY <2>1
  <2>3. q \in [Inv -> Int] /\ \A i \in Inv : q[i] = p[i] + s(2631)[i]
    BY <2>1, <2>2
  <2> HIDE DEF p, q
  <2>4. \A i \in Inv : q[i] = -out[i]
    BY <1>5, <2>2, <2>3
  <2>5. SumFunction(p) = SumFunction(s(2611)) + SumFunction(s(2621))
    BY <1>0, <1>1, <2>2, SumsAdd
  <2>6. SumFunction(q) = SumFunction(p) + SumFunction(s(2631))
    BY <1>0, <1>1, <2>2, <2>3, SumsAdd
  <2>7. SumFunction(q) = -SumFunction(out)
    BY <1>0, <1>2, <2>3, <2>4, SumsNegate
  <2> QED
    BY <2>5, <2>6, <2>7
<1>11. SumFunction(t(2640)) = SumFunction(in) /\ SumFunction(t(2645)) = SumFunction(rev)
  <2>1. t(2640) = in /\ t(2645) = rev
    BY <1>1, <1>2, <1>6
  <2> QED
    BY <2>1
<1>12. SumFunction(t(2614)) = -SumFunction(rev)
  BY <1>0, <1>1, <1>2, <1>6, SumsNegate
<1>13. SumFunction(acq) = SumFunction(t(4535)) + SumFunction(t(4531))
  BY <1>0, <1>1, <1>2, <1>6, SumsAdd
<1>14. /\ BookedOn(2611) = SumFunction(s(2611)) /\ BookedOn(2621) = SumFunction(s(2621))
       /\ BookedOn(2631) = SumFunction(s(2631))
  BY <1>4, <1>7, <1>9
<1>15. /\ BookedOn(2640) = SumFunction(t(2640)) /\ BookedOn(2645) = SumFunction(t(2645))
       /\ BookedOn(2614) = SumFunction(t(2614)) /\ BookedOn(4535) = SumFunction(t(4535))
       /\ BookedOn(4531) = SumFunction(t(4531))
  BY <1>4, <1>7, <1>8
<1>16. BookedOn(2615) = 0 /\ BookedOn(2641) = 0
  BY <1>4, <1>8, <1>9
<1> QED
  BY <1>3, <1>7, <1>10, <1>11, <1>12, <1>13, <1>14, <1>15, <1>16

\* The amounts of the return, computed without a width, are amounts: what ruta 30,
\* ruta 48 and ruta 49 say fits in an int64.
ReturnFits == ReverseVAT \in Amount /\ InputVAT + ReverseVAT \in Amount /\ OutputVAT - InputVAT \in Amount

LEMMA ReturnMatches ==
  ASSUME KnownCodes, CostIsNoVAT, SoundInv, DocumentsBooked, ReturnFits
  PROVE  MomsMatchesDocuments
<1> DEFINE tb == OfSeries({"F", "L"})
           d == Report(tb)
<1>1. /\ BookedOn(2611) + BookedOn(2621) + BookedOn(2631) = -OutputVAT
      /\ BookedOn(2640) = InputVAT /\ BookedOn(2645) = ReverseVAT /\ BookedOn(2614) = -ReverseVAT
      /\ BookedOn(4535) + BookedOn(4531) = ReverseNetSum
      /\ BookedOn(2615) = 0 /\ BookedOn(2641) = 0
      /\ OutputVAT \in Int /\ InputVAT \in Int /\ ReverseVAT \in Int /\ ReverseNetSum \in Int
  BY ReturnAccounts
<1>2. \A a : BookedOn(a) \in Int
  BY DocumentSums
<1>3. \A a : BalanceOf(tb, a) = BookedOn(a)
  BY DEF BookedOn
<1> HIDE DEF tb
<1>4. PICK x \in Int, y \in Int, z \in Int, u \in Int, v \in Int :
             /\ x = BookedOn(2611) /\ y = BookedOn(2621) /\ z = BookedOn(2631)
             /\ u = BookedOn(2614) /\ v = BookedOn(2615)
  BY <1>2
<1>5. /\ d.box21 = BookedOn(4535) /\ d.box22 = BookedOn(4531) /\ d.box30 = Wrap(-u + -v)
      /\ d.box49 = Wrap(-x + -y + -z + Wrap(-u + -v)
                        - Wrap(BookedOn(2640) + BookedOn(2641) + BookedOn(2645)))
  BY <1>3, <1>4 DEF Report
<1>6. BookedOn(2640) + BookedOn(2641) + BookedOn(2645) = InputVAT + ReverseVAT
  BY <1>1, <1>2
<1>7. -x + -y + -z = OutputVAT /\ -u + -v = ReverseVAT
  <2>1. x + y + z = -OutputVAT /\ u = -ReverseVAT /\ v = 0
    BY <1>1, <1>4
  <2>2. PICK o \in Int, r \in Int : o = OutputVAT /\ r = ReverseVAT
    BY <1>1
  <2>3. x + y + z = -o /\ u = -r /\ v <= 0 /\ v >= 0
    BY <2>1, <2>2
  <2>4. -x + -y + -z = o
    <3>1. -x + -y = -(x + y) /\ -(x + y) + -z = -(x + y + z) /\ -(-o) = o
      OBVIOUS
    <3> QED
      BY <2>3, <3>1
  <2>5. -u + -v = r
    <3>1. -v = 0 /\ -(-r) = r /\ -(-r) + 0 = -(-r)
      BY <2>3
    <3> QED
      BY <2>3, <3>1
  <2> QED
    BY <2>2, <2>4, <2>5
<1>8. Wrap(ReverseVAT) = ReverseVAT /\ Wrap(InputVAT + ReverseVAT) = InputVAT + ReverseVAT
  BY WrapId DEF ReturnFits
<1>9. OutputVAT + ReverseVAT - (InputVAT + ReverseVAT) = OutputVAT - InputVAT
  BY <1>1
<1>10. Wrap(OutputVAT - InputVAT) = OutputVAT - InputVAT
  BY WrapId DEF ReturnFits
<1> HIDE DEF d
<1>11. d.box49 = OutputVAT - InputVAT /\ d.box30 = ReverseVAT /\ d.box21 + d.box22 = ReverseNetSum
  BY <1>1, <1>5, <1>6, <1>7, <1>8, <1>9, <1>10
<1> QED
  BY <1>11 DEF MomsMatchesDocuments, d, tb, OutputVAT, InputVAT, ReverseVAT, ReverseNetSum

MomsInv == SoundInv /\ BillTasksInv /\ DocumentsBooked

LEMMA MomsInit ==
  ASSUME Init
  PROVE  MomsInv
<1>1. SoundInv /\ BillTasksInv
  BY SoundInit DEF Init, BillTasksInv, Idle
<1>2. ASSUME NEW a \in Nat PROVE BookedOn(a) = SalesOn(a) + BillsOn(a)
  <2> DEFINE f == [i \in Inv |-> SaleOn(i, a)]
             g == [b \in Bill |-> BillOn(b, a)]
  <2>1. DOMAIN f = Inv /\ (\A i \in Inv : f[i] = 0) /\ DOMAIN g = Bill /\ \A b \in Bill : g[b] = 0
    BY DEF Init, SaleOn, BillOn
  <2>2. SalesOn(a) = SumFunction(f) /\ BillsOn(a) = SumFunction(g) /\ IsFiniteSet(Inv) /\ IsFiniteSet(Bill)
    BY BooksAssumption DEF SalesOn, BillsOn
  <2> HIDE DEF f, g
  <2>3. SalesOn(a) = 0 /\ BillsOn(a) = 0
    BY <2>1, <2>2, SumsNothing
  <2>4. BookedOn(a) = 0
    <3>1. DOMAIN book = {}
      BY EmptyBook
    <3>2. OfSeries({"F", "L"}) = BalancesOf(book, {})
      BY <3>1 DEF OfSeries, TrialBalance
    <3>3. AccountsIn(book, {}) = {}
      BY DEF AccountsIn
    <3>4. DOMAIN OfSeries({"F", "L"}) = {}
      BY <3>2, <3>3 DEF BalancesOf
    <3> QED
      BY <3>4 DEF BookedOn, BalanceOf
  <2> QED
    BY <2>3, <2>4
<1> QED
  BY <1>1, <1>2 DEF MomsInv, DocumentsBooked

LEMMA MomsStep ==
  ASSUME MomsInv, [Next]_vars
  PROVE  MomsInv'
<1>1. SoundInv /\ BillTasksInv /\ DocumentsBooked
  BY DEF MomsInv
<1>2. SoundInv'
  BY <1>1, SoundStep
<1>3. BillTasksInv' /\ DocumentsBooked'
  BY <1>1, <1>2, BillTasksStep, DocumentsStep
<1> QED
  BY <1>2, <1>3 DEF MomsInv

\* The vouchers of documents in the series F and L say what the documents say, on
\* every account: they are those of the invoices that are finalized or paid and of
\* the bills booked, each once, whatever handlers do with the same invoice or bill
\* and however often invoices are credited.  Whatever else is in these series was
\* typed in, or is the second voucher of an invoice that two handlers finalized or
\* credited, or that of a draft deleted meanwhile.
THEOREM BooksAreTheDocuments == Spec => []DocumentsBooked
<1>1. Init => MomsInv
  BY MomsInit
<1>2. MomsInv /\ [Next]_vars => MomsInv'
  BY MomsStep
<1>3. MomsInv => DocumentsBooked
  BY DEF MomsInv
<1> QED
  BY <1>1, <1>2, <1>3, PTL DEF Spec

\* The momsdeklaration agrees with the documents: ruta 49 is the VAT of the
\* invoices less that of the bills, a reverse charge cancels out and its net is in
\* ruta 21 or 22, the second voucher of an invoice that two handlers issued left
\* aside, as long as the return's own amounts fit in an int64, invoices
\* bear the codes the form offers and no bill has an account of the return as its
\* cost account (a domestic bill booked on 4535 would be in ruta 21).
THEOREM MomsIsTheDocuments ==
  ASSUME KnownCodes, CostIsNoVAT
  PROVE  Spec => [](ReturnFits => MomsMatchesDocuments)
<1>1. Init => MomsInv
  BY MomsInit
<1>2. MomsInv /\ [Next]_vars => MomsInv'
  BY MomsStep
<1>3. MomsInv => (ReturnFits => MomsMatchesDocuments)
  BY ReturnMatches DEF MomsInv
<1> QED
  BY <1>1, <1>2, <1>3, PTL DEF Spec

-----------------------------------------------------------------------------
(* SIE files: sequences of anything                                        *)

Sequence(s) == s \in Seq(Range(s))

LEMMA SequenceIs ==
  ASSUME NEW s
  PROVE  /\ Sequence(s) => DOMAIN s = 1 .. Len(s) /\ Len(s) \in Nat
         /\ \A X : s \in Seq(X) => Sequence(s)
<1>1. ASSUME Sequence(s) PROVE DOMAIN s = 1 .. Len(s) /\ Len(s) \in Nat
  <2>1. PICK X : s \in Seq(X)
    BY <1>1 DEF Sequence
  <2> QED
    BY <2>1
<1>2. ASSUME NEW X, s \in Seq(X) PROVE Sequence(s)
  <2>1. s \in [1 .. Len(s) -> X] /\ Len(s) \in Nat
    BY <1>2
  <2>2. s \in [1 .. Len(s) -> Range(s)]
    BY <2>1 DEF Range
  <2> QED
    BY <2>1, <2>2, SeqDef DEF Sequence
<1> QED
  BY <1>1, <1>2

LEMMA SequenceMade ==
  ASSUME NEW n \in Nat, NEW s, s = [i \in 1 .. n |-> s[i]]
  PROVE  Sequence(s) /\ Len(s) = n
<1> DEFINE X == {s[i] : i \in 1 .. n}
<1>1. s \in [1 .. n -> X]
  OBVIOUS
<1> HIDE DEF X
<1>2. s \in Seq(X)
  BY <1>1, SeqDef
<1>3. Len(s) = n
  BY <1>1, <1>2
<1> QED
  BY <1>2, <1>3, SequenceIs

LEMMA SequenceEmpty == Sequence(<< >>) /\ Len(<< >>) = 0 /\ DOMAIN << >> = {}
<1>1. << >> \in Seq({}) /\ Len(<< >>) = 0
  OBVIOUS
<1>2. Sequence(<< >>)
  BY <1>1, SequenceIs
<1>3. DOMAIN << >> = 1 .. Len(<< >>)
  BY <1>2, SequenceIs
<1>4. 1 .. 0 = {}
  OBVIOUS
<1> QED
  BY <1>1, <1>2, <1>3, <1>4

LEMMA SequenceOne ==
  ASSUME NEW x
  PROVE  Sequence(<<x>>) /\ Len(<<x>>) = 1 /\ <<x>>[1] = x
<1>1. <<x>> \in Seq({x})
  OBVIOUS
<1> QED
  BY <1>1, SequenceIs

LEMMA SequenceConcat ==
  ASSUME NEW s, Sequence(s), NEW t, Sequence(t)
  PROVE  /\ Sequence(s \o t) /\ Len(s \o t) = Len(s) + Len(t)
         /\ \A i \in 1 .. Len(s) : (s \o t)[i] = s[i]
         /\ \A i \in 1 .. Len(t) : (s \o t)[Len(s) + i] = t[i]
<1>1. PICK X, Y : s \in Seq(X) /\ t \in Seq(Y)
  BY DEF Sequence
<1>2. s \in Seq(X \cup Y) /\ t \in Seq(X \cup Y)
  BY <1>1, SeqMonotonic
<1>3. s \o t \in Seq(X \cup Y)
  BY <1>2
<1>4. Sequence(s \o t)
  BY <1>3, SequenceIs
<1>5. Len(s) \in Nat /\ Len(t) \in Nat
  BY <1>1
<1>6. \A i \in 1 .. Len(t) : (s \o t)[Len(s) + i] = t[i]
  <2> TAKE i \in 1 .. Len(t)
  <2>1. Len(s) + i \in 1 .. Len(s) + Len(t) /\ Len(s) + i > Len(s) /\ (Len(s) + i) - Len(s) = i
    BY <1>5
  <2> QED
    BY <1>2, <2>1, ConcatProperties
<1>7. Len(s \o t) = Len(s) + Len(t) /\ \A i \in 1 .. Len(s) : (s \o t)[i] = s[i]
  BY <1>2, <1>5, ConcatProperties
<1> QED
  BY <1>4, <1>6, <1>7

LEMMA SequenceAppend ==
  ASSUME NEW s, Sequence(s), NEW x
  PROVE  /\ Sequence(Append(s, x)) /\ Len(Append(s, x)) = Len(s) + 1
         /\ \A i \in 1 .. Len(s) : Append(s, x)[i] = s[i]
         /\ Append(s, x)[Len(s) + 1] = x
<1>1. PICK X : s \in Seq(X)
  BY DEF Sequence
<1>2. s \in Seq(X \cup {x}) /\ x \in X \cup {x}
  BY <1>1, SeqMonotonic
<1>3. PICK Y : s \in Seq(Y) /\ x \in Y
  BY <1>2
<1>4. Append(s, x) \in Seq(Y)
  BY <1>3
<1>5. Sequence(Append(s, x))
  BY <1>4, SequenceIs
<1>6. /\ Len(Append(s, x)) = Len(s) + 1 /\ Append(s, x)[Len(s) + 1] = x
      /\ \A i \in 1 .. Len(s) : Append(s, x)[i] = s[i]
  BY <1>3, AppendProperties
<1> QED
  BY <1>5, <1>6

LEMMA SequenceTail ==
  ASSUME NEW s, Sequence(s), s # << >>
  PROVE  /\ Sequence(Tail(s)) /\ Len(Tail(s)) = Len(s) - 1 /\ Len(s) >= 1
         /\ \A i \in 1 .. Len(s) - 1 : Tail(s)[i] = s[i + 1]
         /\ Head(s) = s[1]
<1>1. PICK X : s \in Seq(X)
  BY DEF Sequence
<1>2. Tail(s) \in Seq(X) /\ Len(s) >= 1
  BY <1>1
<1>3. Sequence(Tail(s))
  BY <1>2, SequenceIs
<1>4. Len(Tail(s)) = Len(s) - 1 /\ Head(s) = s[1] /\ \A i \in 1 .. Len(Tail(s)) : Tail(s)[i] = s[i + 1]
  BY <1>1, HeadTailProperties
<1> QED
  BY <1>2, <1>3, <1>4

LEMMA SequenceNone ==
  ASSUME NEW s, Sequence(s)
  PROVE  s = << >> <=> Len(s) = 0
<1>1. PICK X : s \in Seq(X)
  BY DEF Sequence
<1> QED
  BY <1>1

-----------------------------------------------------------------------------
(* The largest number of a finite set                                      *)

HasLargest(U) == U \subseteq Nat /\ U # {} => \E x \in U : \A y \in U : x >= y

LEMMA LargestIs ==
  ASSUME NEW S, IsFiniteSet(S)
  PROVE  HasLargest(S)
<1> DEFINE T == {U \in SUBSET S : ~HasLargest(U)}
<1>1. T = {}
  <2> SUFFICES ASSUME T # {} PROVE FALSE
    OBVIOUS
  <2>1. PICK U \in T : \A V \in T : V \subseteq U => V = U
    <3> HIDE DEF T
    <3>1. T \in SUBSET (SUBSET S)
      BY DEF T
    <3> QED
      BY <3>1, LeastSubset
  <2>2. U \subseteq S /\ ~HasLargest(U)
    OBVIOUS
  <2>3. PICK z \in U : TRUE
    BY <2>2 DEF HasLargest
  <2>4. HasLargest(U \ {z})
    <3>1. U \ {z} \subseteq U /\ U \ {z} # U
      BY <2>3
    <3>2. U \ {z} \notin T
      BY <2>1, <3>1
    <3>3. U \ {z} \in SUBSET S
      BY <2>2
    <3> QED
      BY <3>2, <3>3
  <2>5. U \subseteq Nat /\ z \in Nat
    BY <2>2, <2>3 DEF HasLargest
  <2>6. CASE U \ {z} = {}
    <3>1. \A y \in U : z >= y
      BY <2>5, <2>6
    <3> QED
      BY <2>2, <2>3, <3>1 DEF HasLargest
  <2>7. CASE U \ {z} # {}
    <3>1. PICK x \in U \ {z} : \A y \in U \ {z} : x >= y
      BY <2>4, <2>5, <2>7 DEF HasLargest
    <3>2. x \in Nat
      BY <2>5
    <3>3. CASE x >= z
      <4>1. \A y \in U : x >= y
        BY <3>1, <3>3
      <4> QED
        BY <2>2, <4>1 DEF HasLargest
    <3>4. CASE z > x
      <4>1. \A y \in U : z >= y
        BY <2>5, <3>1, <3>2, <3>4
      <4> QED
        BY <2>2, <2>3, <4>1 DEF HasLargest
    <3> QED
      BY <2>5, <3>2, <3>3, <3>4
  <2> QED
    BY <2>6, <2>7
<1> QED
  BY <1>1

LEMMA MaxIs ==
  ASSUME NEW S, IsFiniteSet(S), S # {}, S \subseteq Nat
  PROVE  Max(S) \in S /\ \A y \in S : y <= Max(S)
<1>1. HasLargest(S)
  BY LargestIs
<1>2. \E x \in S : \A y \in S : x >= y
  BY <1>1 DEF HasLargest
<1>3. Max(S) \in S /\ \A y \in S : Max(S) >= y
  BY <1>2 DEF Max
<1> QED
  BY <1>3

\* Some row of the series s has the number n.
Has(rows, s, n) == \E k \in DOMAIN rows : rows[k].series = s /\ rows[k].number = n

LEMMA NextNumberIs ==
  ASSUME NEW rows, Sequence(rows), \A k \in DOMAIN rows : rows[k].number \in Nat, NEW s
  PROVE  LET n == NextNumber(rows, s)
         IN  /\ n \in Nat /\ n >= 1 /\ ~Has(rows, s, n)
             /\ n > 1 => Has(rows, s, n - 1)
<1> DEFINE D == DOMAIN rows
           K == {k \in D : rows[k].series = s}
           N == {rows[k].number : k \in K}
           S == {0} \cup N
<1>1. NextNumber(rows, s) = 1 + Max(S)
  <2>1. {w \in Range(rows) : w.series = s} = {rows[k] : k \in K}
    BY DEF Range
  <2>2. {v.number : v \in {rows[k] : k \in K}} = N
    OBVIOUS
  <2> HIDE DEF K, N
  <2> QED
    BY <2>1, <2>2, Zenon DEF NextNumber
<1>2. IsFiniteSet(S)
  <2>1. IsFiniteSet(D)
    BY SequenceIs, FS_Interval
  <2>2. IsFiniteSet(K)
    BY <2>1, FS_Subset
  <2> DEFINE h == [k \in K |-> rows[k].number]
  <2>3. h \in Surjection(K, N)
    BY DEF Surjection
  <2> HIDE DEF h, K, N
  <2>4. IsFiniteSet(N)
    BY <2>2, <2>3, FS_Surjection
  <2> QED
    BY <2>4, FS_Union, FS_Singleton
<1>3. S \subseteq Nat /\ S # {}
  OBVIOUS
<1> HIDE DEF S
<1>4. Max(S) \in S /\ \A y \in S : y <= Max(S)
  BY <1>2, <1>3, MaxIs
<1>5. PICK m \in Nat : m = Max(S)
  BY <1>3, <1>4
<1>6. \A k \in D : rows[k].series = s => rows[k].number <= m
  BY <1>4, <1>5 DEF S
<1>7. m > 0 => \E k \in D : rows[k].series = s /\ rows[k].number = m
  <2>1. m \in {0} \cup N
    BY <1>4, <1>5 DEF S
  <2> QED
    BY <2>1
<1>8. PICK n \in Nat : n = NextNumber(rows, s) /\ n = 1 + m
  BY <1>1, <1>5
<1>9. ~Has(rows, s, n)
  BY <1>6, <1>8 DEF Has
<1>10. n > 1 => Has(rows, s, n - 1)
  BY <1>7, <1>8 DEF Has
<1>11. n \in Nat /\ n >= 1
  BY <1>5, <1>8
<1> QED
  BY <1>8, <1>9, <1>10, <1>11, Zenon

-----------------------------------------------------------------------------
(* What an import goes through                                             *)

\* The vouchers of a file: the opening balances if there are any, then the file's.
LEMMA ImportVouchersAre ==
  ASSUME NEW f, FileOK(f)
  PROVE  LET iv == ImportVouchers(f)
         IN  /\ Sequence(iv) /\ \A i \in 1 .. Len(iv) : iv[i].date \in Nat
             /\ opening(f) = << >> =>
                  /\ Len(iv) = Len(f.vers)
                  /\ \A i \in 1 .. Len(f.vers) : iv[i] = voucher(f, f.vers[i])
<1> DEFINE n == Len(f.vers)
           V == [i \in 1 .. n |-> voucher(f, f.vers[i])]
           o == opening(f)
<1>1. Sequence(f.vers) /\ DOMAIN f.vers = 1 .. n /\ n \in Nat
  BY SequenceIs DEF FileOK, Sequence
<1>2. Sequence(V) /\ Len(V) = n /\ \A i \in 1 .. n : V[i] = voucher(f, f.vers[i])
  <2>1. V = [i \in 1 .. n |-> V[i]] /\ \A i \in 1 .. n : V[i] = voucher(f, f.vers[i])
    OBVIOUS
  <2> HIDE DEF n, V
  <2> QED
    BY <1>1, <2>1, SequenceMade
<1>3. \A i \in 1 .. n : voucher(f, f.vers[i]).date \in Nat
  BY <1>1 DEF voucher, parseYMD, FileOK
<1>4. o = << >> \/ \E x : o = <<x>> /\ x.date = YearStart(f.year)
  <2>1. o = << >> \/ \E ls : o = <<[series |-> <<"IB">>, date |-> YearStart(f.year), lines |-> ls]>>
    BY Zenon DEF opening
  <2> HIDE DEF o
  <2> QED
    BY <2>1
<1>5. YearStart(f.year) \in Nat
  BY DEF FileOK, YearStart
<1>6. ImportVouchers(f) = o \o V
  BY <1>1, Zenon DEF ImportVouchers
<1> HIDE DEF n, V, o
<1>7. Sequence(o) /\ \A i \in 1 .. Len(o) : o[i].date \in Nat
  BY <1>4, <1>5, SequenceEmpty, SequenceOne
<1> DEFINE iv == o \o V
<1> HIDE DEF iv
<1>8. /\ Sequence(iv) /\ Len(iv) = Len(o) + Len(V)
      /\ \A i \in 1 .. Len(o) : iv[i] = o[i]
      /\ \A i \in 1 .. Len(V) : iv[Len(o) + i] = V[i]
  <2>1. Sequence(o) /\ Sequence(V)
    BY <1>2, <1>7, Zenon
  <2>2. /\ Sequence(o \o V) /\ Len(o \o V) = Len(o) + Len(V)
        /\ \A i \in 1 .. Len(o) : (o \o V)[i] = o[i]
        /\ \A i \in 1 .. Len(V) : (o \o V)[Len(o) + i] = V[i]
    BY <2>1, SequenceConcat
  <2> QED
    BY <2>2, Zenon DEF iv
<1>9. Len(o) \in Nat /\ n \in Nat
  BY <1>1, <1>7, SequenceIs
<1>10. ASSUME NEW i \in 1 .. Len(iv) PROVE iv[i].date \in Nat
  <2>1. CASE i \in 1 .. Len(o)
    BY <1>7, <1>8, <2>1
  <2>2. CASE i \notin 1 .. Len(o)
    <3>1. PICK j \in 1 .. n : i = Len(o) + j
      <4>1. i - Len(o) \in 1 .. n /\ i = Len(o) + (i - Len(o))
        BY <1>2, <1>8, <1>9, <2>2
      <4> QED
        BY <4>1
    <3> QED
      BY <1>2, <1>3, <1>8, <3>1
  <2> QED
    BY <2>1, <2>2
<1>11. ASSUME o = << >>
       PROVE  Len(iv) = n /\ \A i \in 1 .. n : iv[i] = voucher(f, f.vers[i])
  <2>1. Len(o) = 0
    BY <1>11, SequenceEmpty
  <2>2. \A i \in 1 .. n : iv[0 + i] = voucher(f, f.vers[i])
    BY <1>2, <1>8, <2>1
  <2> QED
    BY <1>2, <1>8, <1>9, <2>1, <2>2
<1> QED
  BY <1>6, <1>8, <1>10, <1>11 DEF iv, o, n

Job(c) == DOMAIN c = {"at", "file", "todo", "rows", "number"}

\* The import r is in the middle of its file: the vouchers it has posted are the
\* first ones, under its own numbers, and it has the others still to do.
JobOK(r, c) ==
  LET iv == ImportVouchers(c.file)
  IN  /\ Job(c) /\ FileOK(c.file)
      /\ Sequence(c.todo) /\ Sequence(c.rows) /\ Len(c.rows) + Len(c.todo) = Len(iv)
      /\ \A i \in 1 .. Len(c.rows) :
           /\ c.rows[i] = Row(iv[i], c.rows[i].number, r)
           /\ c.rows[i].number \in Nat /\ c.rows[i].number >= 1 /\ Validate(c.rows[i].lines)
      /\ \A i \in 1 .. Len(c.todo) : c.todo[i] = iv[Len(c.rows) + i]
      /\ c.at \in {"count", "seed"} => c.rows = << >>
      /\ c.at = "insert" => /\ c.todo # << >> /\ Validate(Head(c.todo).lines)
                            /\ c.number \in Nat /\ c.number >= 1
      /\ c.at = "commit" => c.todo = << >>

ImpOK(r, c) ==
  \/ c = NotStarted
  \/ c.at \in {"done", "failed"}
  \/ c.at \in InTx \cup {"count"} /\ JobOK(r, c)

\* A finished import has its vouchers side by side in the ledger.
DoneOK(r, c, rows) ==
  LET iv == ImportVouchers(c.file)
  IN  c.at = "done" =>
        /\ FileOK(c.file)
        /\ \E n \in Nat :
             /\ n + Len(iv) <= Len(rows)
             /\ \A k \in 1 .. Len(rows) : rows[k].by = r <=> k \in n + 1 .. n + Len(iv)
             /\ \A i \in 1 .. Len(iv) : rows[n + i] = Row(iv[i], rows[n + i].number, r)

LedgerOK ==
  /\ Sequence(ledger)
  /\ \A k \in 1 .. Len(ledger) :
       /\ ledger[k].date \in Nat /\ ledger[k].number \in Nat /\ ledger[k].number >= 1
       /\ Validate(ledger[k].lines)
       /\ ledger[k].by \in Import \cup {"hand"}
       /\ ledger[k].by \in Import => Done(ledger[k].by)

ImportsInv ==
  /\ DOMAIN imp = Import
  /\ \A r \in Import : ImpOK(r, imp[r]) /\ DoneOK(r, imp[r], ledger)
  /\ LedgerOK

LEMMA GotoIs ==
  ASSUME DOMAIN imp = Import, NEW r \in Import, NEW c, goto(r, c)
  PROVE  DOMAIN imp' = Import /\ imp'[r] = c /\ \A q \in Import \ {r} : imp'[q] = imp[q]
  BY DEF goto

\* An import that goes on, or gives up, touches nothing but its own work.
LEMMA GotoKeeps ==
  ASSUME ImportsInv, NEW r \in Import, ~Done(r), NEW c, goto(r, c), ImpOK(r, c), c.at # "done", UNCHANGED ledger
  PROVE  ImportsInv'
<1>1. DOMAIN imp' = Import /\ imp'[r] = c /\ \A q \in Import \ {r} : imp'[q] = imp[q]
  BY GotoIs DEF ImportsInv
<1>2. \A q \in Import : ImpOK(q, imp'[q])
  BY <1>1 DEF ImportsInv
<1>3. \A q \in Import : DoneOK(q, imp'[q], ledger')
  <2> SUFFICES ASSUME NEW q \in Import PROVE DoneOK(q, imp'[q], ledger')
    OBVIOUS
  <2>1. CASE q = r
    BY <1>1, <2>1 DEF DoneOK
  <2>2. CASE q # r
    <3>1. imp'[q] = imp[q] /\ DoneOK(q, imp[q], ledger)
      BY <1>1, <2>2 DEF ImportsInv
    <3> QED
      BY <3>1
  <2> QED
    BY <2>1, <2>2
<1>4. \A q \in Import : Done(q) => Done(q)'
  BY <1>1 DEF Done
<1>5. LedgerOK'
  BY <1>4 DEF LedgerOK, ImportsInv
<1> QED
  BY <1>1, <1>2, <1>3, <1>5 DEF ImportsInv

\* An import with work to do, and the records it becomes.
LEMMA JobIs ==
  ASSUME ImportsInv, NEW r \in Import, imp[r].at \in InTx \cup {"count"}
  PROVE  JobOK(r, imp[r]) /\ Job(imp[r]) /\ ~Done(r)
<1>1. ImpOK(r, imp[r])
  BY DEF ImportsInv
<1>2. JobOK(r, imp[r])
  BY <1>1 DEF ImpOK, InTx, NotStarted
<1> QED
  BY <1>2 DEF JobOK, Done, InTx

Moved(c, d, at, n) ==
  Job(d) /\ d.at = at /\ d.file = c.file /\ d.todo = c.todo /\ d.rows = c.rows /\ d.number = n

LEMMA JobMoved ==
  ASSUME NEW c, Job(c), NEW at
  PROVE  Moved(c, [c EXCEPT !.at = at], at, c.number) /\ \A n : Moved(c, [c EXCEPT !.at = at, !.number = n], at, n)
  BY DEF Job, Moved

LEMMA JobInserted ==
  ASSUME NEW c, Job(c), NEW x
  PROVE  LET d == [c EXCEPT !.at = "number", !.todo = Tail(@), !.rows = Append(@, x)]
         IN  /\ Job(d) /\ d.at = "number" /\ d.file = c.file /\ d.number = c.number
             /\ d.todo = Tail(c.todo) /\ d.rows = Append(c.rows, x)
  BY DEF Job

LEMMA RollbackKeeps ==
  ASSUME ImportsInv, NEW r \in Import, imp[r].at \in InTx \cup {"count"}, rollback(r), UNCHANGED ledger
  PROVE  ImportsInv'
<1> DEFINE c == [at |-> "failed", file |-> imp[r].file]
<1>1. goto(r, c) /\ ~Done(r)
  BY JobIs DEF rollback
<1>2. ImpOK(r, c) /\ c.at # "done"
  BY DEF ImpOK
<1> HIDE DEF c
<1> QED
  BY <1>1, <1>2, GotoKeeps

\* A step that changes nothing but where the import is, and a number.
LEMMA MoveKeeps ==
  ASSUME ImportsInv, NEW r \in Import, imp[r].at \in InTx \cup {"count"}, NEW at \in InTx, NEW n,
         NEW c, Moved(imp[r], c, at, n), goto(r, c), UNCHANGED ledger,
         at = "seed" => imp[r].at = "count",
         at = "insert" => /\ imp[r].todo # << >> /\ Validate(Head(imp[r].todo).lines)
                          /\ n \in Nat /\ n >= 1,
         at = "commit" => imp[r].todo = << >>
  PROVE  ImportsInv'
<1>1. JobOK(r, imp[r]) /\ ~Done(r)
  BY JobIs
<1>2. JobOK(r, c)
  <2>1. at = "seed" => imp[r].rows = << >>
    BY <1>1 DEF JobOK
  <2>2. at # "count"
    BY DEF InTx
  <2> QED
    BY <1>1, <2>1, <2>2 DEF JobOK, Moved
<1>3. c.at = at /\ at # "done"
  BY DEF InTx, Moved
<1>4. ImpOK(r, c)
  BY <1>2, <1>3 DEF ImpOK
<1> QED
  BY <1>1, <1>3, <1>4, GotoKeeps

\* The next voucher of the file becomes a row of the import.
LEMMA InsertKeeps ==
  ASSUME ImportsInv, NEW r \in Import, imp[r].at = "insert", goto(r, inserted(r)), UNCHANGED ledger
  PROVE  ImportsInv'
<1> DEFINE c == imp[r]
           d == inserted(r)
           iv == ImportVouchers(c.file)
           x == rowOf(r)
<1>1. JobOK(r, c) /\ ~Done(r) /\ Job(c)
  BY JobIs DEF InTx
<1>2. /\ Job(d) /\ d.at = "number" /\ d.file = c.file /\ d.number = c.number
      /\ d.todo = Tail(c.todo) /\ d.rows = Append(c.rows, x)
  BY <1>1, JobInserted DEF inserted
<1>3. /\ Sequence(c.todo) /\ Sequence(c.rows) /\ Len(c.rows) + Len(c.todo) = Len(iv) /\ FileOK(c.file)
      /\ \A i \in 1 .. Len(c.rows) :
           /\ c.rows[i] = Row(iv[i], c.rows[i].number, r)
           /\ c.rows[i].number \in Nat /\ c.rows[i].number >= 1 /\ Validate(c.rows[i].lines)
      /\ \A i \in 1 .. Len(c.todo) : c.todo[i] = iv[Len(c.rows) + i]
      /\ c.todo # << >> /\ Validate(Head(c.todo).lines) /\ c.number \in Nat /\ c.number >= 1
  BY <1>1 DEF JobOK
<1>4. x = Row(Head(c.todo), c.number, r)
  BY DEF rowOf
<1> HIDE DEF c, d, x, iv
<1>5. Len(c.rows) \in Nat /\ Len(c.todo) \in Nat /\ Len(c.todo) >= 1
  BY <1>3, SequenceIs, SequenceTail
<1>6. /\ Sequence(d.todo) /\ Len(d.todo) = Len(c.todo) - 1 /\ Head(c.todo) = c.todo[1]
      /\ \A i \in 1 .. Len(c.todo) - 1 : d.todo[i] = c.todo[i + 1]
  BY <1>2, <1>3, SequenceTail
<1>7. /\ Sequence(d.rows) /\ Len(d.rows) = Len(c.rows) + 1 /\ d.rows[Len(c.rows) + 1] = x
      /\ \A i \in 1 .. Len(c.rows) : d.rows[i] = c.rows[i]
  BY <1>2, <1>3, SequenceAppend
<1>20. PICK a \in Nat, b \in Nat : a = Len(c.rows) /\ b = Len(c.todo) /\ b >= 1
  BY <1>5
<1>21. Len(d.rows) = a + 1 /\ Len(d.todo) = b - 1 /\ Len(iv) = a + b
  BY <1>3, <1>6, <1>7, <1>20, Zenon
<1>8. Len(d.rows) + Len(d.todo) = Len(iv)
  <2>1. (a + 1) + (b - 1) = a + b
    OBVIOUS
  <2> QED
    BY <1>21, <2>1, Zenon
<1>9. Head(c.todo) = iv[Len(c.rows) + 1]
  <2>1. 1 \in 1 .. b
    BY <1>20
  <2>2. c.todo[1] = iv[a + 1]
    BY <1>3, <1>20, <2>1
  <2> QED
    BY <1>6, <1>20, <2>2
<1>10. x = Row(iv[Len(c.rows) + 1], x.number, r) /\ x.number = c.number /\ x.lines = Head(c.todo).lines
  BY <1>4, <1>9 DEF Row
<1>11. \A i \in 1 .. Len(d.rows) :
         /\ d.rows[i] = Row(iv[i], d.rows[i].number, r)
         /\ d.rows[i].number \in Nat /\ d.rows[i].number >= 1 /\ Validate(d.rows[i].lines)
  <2> TAKE i \in 1 .. Len(d.rows)
  <2>1. CASE i \in 1 .. Len(c.rows)
    BY <1>3, <1>7, <2>1
  <2>2. CASE i = Len(c.rows) + 1
    BY <1>3, <1>7, <1>10, <2>2
  <2> QED
    BY <1>5, <1>7, <2>1, <2>2
<1>22. \A i \in 1 .. b - 1 : d.todo[i] = iv[(a + 1) + i]
  <2> TAKE i \in 1 .. b - 1
  <2>1. i + 1 \in 1 .. b /\ a + (i + 1) = (a + 1) + i
    OBVIOUS
  <2>2. d.todo[i] = c.todo[i + 1]
    BY <1>6, <1>20, Zenon
  <2>3. c.todo[i + 1] = iv[a + (i + 1)]
    BY <1>3, <1>20, <2>1, Zenon
  <2> QED
    BY <2>1, <2>2, <2>3, Zenon
<1>12. \A i \in 1 .. Len(d.todo) : d.todo[i] = iv[Len(d.rows) + i]
  BY <1>21, <1>22, Zenon
<1>13. iv = ImportVouchers(d.file)
  BY <1>2, Zenon DEF iv
<1>14. JobOK(r, d)
  BY <1>2, <1>3, <1>6, <1>7, <1>8, <1>11, <1>12, <1>13 DEF JobOK
<1>15. ImpOK(r, d) /\ d.at # "done"
  BY <1>2, <1>14 DEF ImpOK, InTx
<1>16. goto(r, d)
  BY DEF d
<1> QED
  BY <1>1, <1>15, <1>16, GotoKeeps

\* Rows of others behind those of a finished import change nothing for it.
LEMMA DoneStays ==
  ASSUME NEW rows, Sequence(rows), NEW more, Sequence(more), NEW r, NEW c,
         DoneOK(r, c, rows), \A i \in 1 .. Len(more) : more[i].by # r
  PROVE  DoneOK(r, c, rows \o more)
<1> DEFINE t == rows \o more
           iv == ImportVouchers(c.file)
           l == Len(rows)
           m == Len(more)
<1>1. /\ Len(t) = l + m
      /\ \A i \in 1 .. l : t[i] = rows[i]
      /\ \A i \in 1 .. m : t[l + i] = more[i]
  BY SequenceConcat
<1>2. l \in Nat /\ m \in Nat
  BY SequenceIs
<1> SUFFICES ASSUME c.at = "done"
             PROVE  DoneOK(r, c, t)
  BY DEF DoneOK
<1> HIDE DEF t, l, m
<1>3. PICK n \in Nat :
        /\ n + Len(iv) <= l
        /\ \A k \in 1 .. l : rows[k].by = r <=> k \in n + 1 .. n + Len(iv)
        /\ \A i \in 1 .. Len(iv) : rows[n + i] = Row(iv[i], rows[n + i].number, r)
  BY DEF DoneOK, l
<1>4. FileOK(c.file)
  BY DEF DoneOK
<1>5. Len(iv) \in Nat
  BY <1>4, ImportVouchersAre, SequenceIs
<1>6. PICK p \in Nat : p = Len(iv)
  BY <1>5
<1> HIDE DEF iv
<1>7. n + p <= l + m /\ n + p <= l
  BY <1>2, <1>3, <1>6
<1>8. ASSUME NEW k \in 1 .. l + m
      PROVE  t[k].by = r <=> k \in n + 1 .. n + p
  <2>1. CASE k \in 1 .. l
    BY <1>1, <1>3, <1>6, <2>1
  <2>2. CASE k \notin 1 .. l
    <3>1. k - l \in 1 .. m /\ k = l + (k - l) /\ k \notin n + 1 .. n + p
      BY <1>2, <1>7, <2>2
    <3>2. t[k] = more[k - l]
      BY <1>1, <3>1
    <3>3. t[k].by # r
      BY <3>1, <3>2 DEF m
    <3> QED
      BY <3>1, <3>3
  <2> QED
    BY <2>1, <2>2
<1>9. ASSUME NEW i \in 1 .. p
      PROVE  t[n + i] = Row(iv[i], t[n + i].number, r)
  <2>1. n + i \in 1 .. l
    BY <1>2, <1>7
  <2> QED
    BY <1>1, <1>3, <1>6, <2>1
<1>10. /\ n + Len(iv) <= Len(t)
       /\ \A k \in 1 .. Len(t) : t[k].by = r <=> k \in n + 1 .. n + Len(iv)
       /\ \A i \in 1 .. Len(iv) : t[n + i] = Row(iv[i], t[n + i].number, r)
  BY <1>1, <1>6, <1>7, <1>8, <1>9, Zenon
<1> QED
  BY <1>4, <1>10 DEF DoneOK, iv

\* The rows of an import in the middle of the file are sound.
RowsOK(rows, who) ==
  /\ Sequence(rows)
  /\ \A i \in 1 .. Len(rows) :
       /\ rows[i].date \in Nat /\ rows[i].number \in Nat /\ rows[i].number >= 1
       /\ Validate(rows[i].lines) /\ rows[i].by = who

LEMMA LedgerGrows ==
  ASSUME LedgerOK, NEW more, NEW who \in Import \cup {"hand"}, RowsOK(more, who),
         ledger' = ledger \o more, who \in Import => Done(who)', \A q \in Import : Done(q) => Done(q)'
  PROVE  LedgerOK'
<1>0. PICK D : D = {q \in Import : Done(q)'}
  OBVIOUS
<1> DEFINE t == ledger \o more
           l == Len(ledger)
           m == Len(more)
           OK(v) == /\ v.date \in Nat /\ v.number \in Nat /\ v.number >= 1
                    /\ Validate(v.lines) /\ v.by \in Import \cup {"hand"}
                    /\ v.by \in Import => v.by \in D
<1>1. /\ Sequence(t) /\ Len(t) = l + m
      /\ \A i \in 1 .. l : t[i] = ledger[i]
      /\ \A i \in 1 .. m : t[l + i] = more[i]
  BY SequenceConcat DEF LedgerOK, RowsOK
<1>2. l \in Nat /\ m \in Nat
  BY SequenceIs DEF LedgerOK, RowsOK
<1>3. \A i \in 1 .. l : OK(ledger[i])
  BY <1>0 DEF LedgerOK
<1>4. \A i \in 1 .. m : OK(more[i])
  BY <1>0 DEF RowsOK
<1> HIDE DEF t, l, m, OK
<1>5. ASSUME NEW k \in 1 .. l + m PROVE OK(t[k])
  <2>1. CASE k \in 1 .. l
    BY <1>1, <1>3, <2>1
  <2>2. CASE k \notin 1 .. l
    <3>1. k - l \in 1 .. m /\ k = l + (k - l)
      BY <1>2, <2>2
    <3>2. t[k] = more[k - l]
      BY <1>1, <3>1
    <3> QED
      BY <1>4, <3>1, <3>2
  <2> QED
    BY <2>1, <2>2
<1>6. ledger' = t
  BY DEF t
<1>7. PICK x : x = ledger' /\ x = t
  BY <1>6
<1>8. Sequence(x) /\ \A k \in 1 .. Len(x) : OK(x[k])
  BY <1>1, <1>5, <1>7, Zenon
<1>9. \A q \in D : Done(q)'
  BY <1>0
<1> QED
  BY <1>7, <1>8, <1>9 DEF LedgerOK, OK, Done

LEMMA CommitKeeps ==
  ASSUME ImportsInv, NEW r \in Import, Commit(r)
  PROVE  ImportsInv'
<1> DEFINE c == imp[r]
           d == [at |-> "done", file |-> c.file]
           iv == ImportVouchers(c.file)
           l == Len(ledger)
<1>1. c.at = "commit" /\ ledger' = ledger \o c.rows /\ goto(r, d)
  BY DEF Commit
<1>2. JobOK(r, c) /\ ~Done(r)
  BY <1>1, JobIs DEF InTx
<1>3. DOMAIN imp' = Import /\ imp'[r] = d /\ \A q \in Import \ {r} : imp'[q] = imp[q]
  BY <1>1, GotoIs DEF ImportsInv
<1>4. d.at = "done" /\ d.file = c.file
  OBVIOUS
<1>5. Sequence(ledger) /\ LedgerOK
  BY DEF ImportsInv, LedgerOK
<1>6. \A k \in 1 .. l : ledger[k].by # r
  BY <1>2 DEF LedgerOK, ImportsInv
<1> HIDE DEF c, d
<1>7. /\ Sequence(c.rows) /\ FileOK(c.file) /\ Sequence(c.todo) /\ Len(c.rows) + Len(c.todo) = Len(iv) /\ c.todo = << >>
      /\ \A i \in 1 .. Len(c.rows) :
           /\ c.rows[i] = Row(iv[i], c.rows[i].number, r)
           /\ c.rows[i].number \in Nat /\ c.rows[i].number >= 1 /\ Validate(c.rows[i].lines)
  BY <1>1, <1>2 DEF JobOK
<1>8. PICK w : w = c.rows
  OBVIOUS
<1>9. PICK p \in Nat : p = Len(w) /\ p = Len(iv)
  <2>1. Len(w) \in Nat /\ Len(c.todo) = 0
    BY <1>7, <1>8, SequenceIs, SequenceEmpty
  <2>2. Len(w) + 0 = Len(iv)
    BY <1>7, <1>8, <2>1
  <2> QED
    BY <2>1, <2>2
<1>10. Sequence(iv) /\ \A i \in 1 .. Len(iv) : iv[i].date \in Nat
  BY <1>7, ImportVouchersAre
<1> HIDE DEF iv, l
<1>11. \A i \in 1 .. p :
         /\ w[i] = Row(iv[i], w[i].number, r) /\ w[i].number \in Nat /\ w[i].number >= 1
         /\ Validate(w[i].lines) /\ iv[i].date \in Nat
  BY <1>7, <1>8, <1>9, <1>10, Zenon
<1>12. \A i \in 1 .. p : w[i].by = r /\ w[i].date \in Nat
  <2> TAKE i \in 1 .. p
  <2>1. PICK n : w[i] = Row(iv[i], n, r)
    BY <1>11
  <2>2. w[i].by = r /\ w[i].date = iv[i].date
    BY <2>1 DEF Row
  <2> QED
    BY <1>11, <2>2
<1>13. RowsOK(w, r)
  <2>1. Sequence(w) /\ Len(w) = p
    BY <1>7, <1>8, <1>9
  <2> QED
    BY <1>11, <1>12, <2>1 DEF RowsOK
<1>14. ledger' = ledger \o w
  BY <1>1, <1>8
<1>15. Done(r)' /\ \A q \in Import : Done(q) => Done(q)'
  BY <1>3, <1>4 DEF Done
<1>16. LedgerOK'
  BY <1>5, <1>13, <1>14, <1>15, LedgerGrows
<1>17. ASSUME NEW q \in Import PROVE ImpOK(q, imp'[q])
  <2>1. CASE q = r
    BY <1>3, <1>4, <2>1 DEF ImpOK
  <2>2. CASE q # r
    BY <1>3, <2>2 DEF ImportsInv
  <2> QED
    BY <2>1, <2>2
<1>18. ASSUME NEW q \in Import, q # r PROVE DoneOK(q, imp'[q], ledger')
  <2>1. imp'[q] = imp[q] /\ DoneOK(q, imp[q], ledger)
    BY <1>3, <1>18 DEF ImportsInv
  <2>2. \A i \in 1 .. Len(w) : w[i].by # q
    BY <1>9, <1>12, <1>18
  <2>3. DoneOK(q, imp[q], ledger \o w)
    BY <1>5, <1>7, <1>8, <2>1, <2>2, DoneStays
  <2> QED
    BY <1>14, <2>1, <2>3
<1>19. DoneOK(r, imp'[r], ledger')
  <2> DEFINE t == ledger \o w
  <2>1. /\ Len(t) = l + p
        /\ \A i \in 1 .. l : t[i] = ledger[i]
        /\ \A i \in 1 .. p : t[l + i] = w[i]
    <3>0. Sequence(w) /\ Sequence(ledger)
      BY <1>5, <1>7, <1>8
    <3>1. Len(w) = p
      BY <1>9
    <3>2. /\ Len(t) = Len(ledger) + Len(w)
          /\ \A i \in 1 .. Len(ledger) : t[i] = ledger[i]
          /\ \A i \in 1 .. Len(w) : t[Len(ledger) + i] = w[i]
      BY <3>0, SequenceConcat
    <3> HIDE DEF t
    <3> QED
      BY <3>1, <3>2, Zenon DEF l
  <2>2. l \in Nat
    BY <1>5, SequenceIs DEF l
  <2> HIDE DEF t
  <2>3. ASSUME NEW k \in 1 .. l + p
        PROVE  t[k].by = r <=> k \in l + 1 .. l + p
    <3>1. CASE k \in 1 .. l
      <4>1. t[k].by # r /\ k \notin l + 1 .. l + p
        BY <1>6, <2>1, <2>2, <3>1
      <4> QED
        BY <4>1
    <3>2. CASE k \notin 1 .. l
      <4>1. k - l \in 1 .. p /\ k = l + (k - l) /\ k \in l + 1 .. l + p
        BY <2>2, <3>2
      <4>2. t[k].by = r
        BY <1>12, <2>1, <4>1
      <4> QED
        BY <4>1, <4>2
    <3> QED
      BY <3>1, <3>2
  <2>4. \A i \in 1 .. p : t[l + i] = Row(iv[i], t[l + i].number, r)
    BY <1>11, <2>1
  <2>5. /\ l + Len(iv) <= Len(t)
        /\ \A k \in 1 .. Len(t) : t[k].by = r <=> k \in l + 1 .. l + Len(iv)
        /\ \A i \in 1 .. Len(iv) : t[l + i] = Row(iv[i], t[l + i].number, r)
    <3>1. l + p <= l + p
      BY <2>2
    <3> QED
      BY <1>9, <2>1, <2>3, <2>4, <3>1, Zenon
  <2>6. iv = ImportVouchers(d.file) /\ FileOK(d.file)
    BY <1>4, <1>7, Zenon DEF iv
  <2>7. DoneOK(r, d, t)
    BY <1>4, <2>2, <2>5, <2>6 DEF DoneOK
  <2> QED
    BY <1>3, <1>14, <2>7 DEF t
<1> QED
  BY <1>3, <1>16, <1>17, <1>18, <1>19 DEF ImportsInv

\* Files in the company's hands, its own and those of other programs.
FilesFine == \A f \in Foreign \cup Range(file) : FileOK(f)

LEMMA StartKeeps ==
  ASSUME ImportsInv, FilesFine, NEW r \in Import, NEW f \in Foreign \cup Range(file), handleSIEImport(r, f)
  PROVE  ImportsInv'
<1> DEFINE iv == ImportVouchers(f)
           c == [at |-> "count", file |-> f, todo |-> iv, rows |-> << >>, number |-> 0]
<1>1. imp[r] = NotStarted /\ goto(r, c) /\ UNCHANGED ledger
  BY DEF handleSIEImport
<1>2. FileOK(f)
  BY DEF FilesFine
<1>3. /\ c.at = "count" /\ c.file = f /\ c.todo = iv /\ c.rows = << >> /\ Job(c)
  BY DEF Job
<1>4. Sequence(iv)
  BY <1>2, ImportVouchersAre
<1>5. PICK n \in Nat : n = Len(iv)
  BY <1>4, SequenceIs
<1>6. Sequence(<< >>) /\ Len(<< >>) = 0 /\ 1 .. 0 = {} /\ 0 + n = n
  BY SequenceEmpty
<1>7. iv = ImportVouchers(c.file)
  BY <1>3, Zenon
<1> HIDE DEF c, iv
<1>8. Len(c.rows) + Len(c.todo) = Len(iv)
  BY <1>3, <1>5, <1>6, Zenon
<1>9. \A i \in 1 .. n : 0 + i = i
  OBVIOUS
<1>10. \A i \in 1 .. Len(c.todo) : c.todo[i] = iv[Len(c.rows) + i]
  BY <1>3, <1>5, <1>6, <1>9, Zenon
<1>11. Len(c.rows) = 0 /\ Sequence(c.rows) /\ Sequence(c.todo) /\ FileOK(c.file)
  BY <1>2, <1>3, <1>4, <1>6, Zenon
<1>12. JobOK(r, c)
  BY <1>3, <1>6, <1>7, <1>8, <1>10, <1>11 DEF JobOK
<1>13. ImpOK(r, c) /\ c.at # "done" /\ ~Done(r)
  BY <1>1, <1>3, <1>12 DEF ImpOK, Done, NotStarted
<1> QED
  BY <1>1, <1>13, GotoKeeps DEF c

LEMMA AppendIs ==
  ASSUME NEW s, Sequence(s), NEW x
  PROVE  Append(s, x) = s \o <<x>>
<1>1. PICK X : s \in Seq(X)
  BY DEF Sequence
<1>2. s \in Seq(X \cup {x}) /\ x \in X \cup {x}
  BY <1>1, SeqMonotonic
<1> QED
  BY <1>2, AppendIsConcat

\* The numbers in the ledger and in the rows of one import.
LEMMA NumbersAre ==
  ASSUME ImportsInv
  PROVE  \A k \in DOMAIN ledger : ledger[k].number \in Nat
<1>1. DOMAIN ledger = 1 .. Len(ledger)
  BY SequenceIs DEF ImportsInv, LedgerOK
<1> QED
  BY <1>1 DEF ImportsInv, LedgerOK

LEMMA OwnNumbersAre ==
  ASSUME ImportsInv, NEW r \in Import, imp[r].at \in InTx \cup {"count"}
  PROVE  LET t == ledger \o imp[r].rows
         IN  /\ Sequence(t) /\ \A k \in DOMAIN t : t[k].number \in Nat
             /\ \A s, n : Has(t, s, n) <=> Has(ledger, s, n) \/ Has(imp[r].rows, s, n)
<1>1. PICK w : w = imp[r].rows
  OBVIOUS
<1>2. JobOK(r, imp[r])
  BY JobIs
<1>3. Sequence(w) /\ \A i \in 1 .. Len(w) : w[i].number \in Nat
  BY <1>1, <1>2 DEF JobOK
<1>4. Sequence(ledger) /\ \A i \in 1 .. Len(ledger) : ledger[i].number \in Nat
  BY DEF ImportsInv, LedgerOK
<1>5. PICK l \in Nat, m \in Nat : l = Len(ledger) /\ m = Len(w) /\ DOMAIN ledger = 1 .. l /\ DOMAIN w = 1 .. m
  BY <1>3, <1>4, SequenceIs
<1> DEFINE t == ledger \o w
<1>6. /\ Sequence(t) /\ Len(t) = l + m
      /\ \A i \in 1 .. l : t[i] = ledger[i]
      /\ \A i \in 1 .. m : t[l + i] = w[i]
  BY <1>3, <1>4, <1>5, SequenceConcat
<1> HIDE DEF t
<1>7. DOMAIN t = 1 .. l + m
  BY <1>6, SequenceIs
<1>8. \A i \in 1 .. l : i \in 1 .. l + m
  OBVIOUS
<1>9. \A i \in 1 .. m : l + i \in 1 .. l + m
  OBVIOUS
<1>10. \A k \in 1 .. l + m : k \in 1 .. l \/ \E i \in 1 .. m : k = l + i
  <2> TAKE k \in 1 .. l + m
  <2>1. k \notin 1 .. l => k - l \in 1 .. m /\ k = l + (k - l)
    OBVIOUS
  <2> QED
    BY <2>1
<1>13. \A k \in 1 .. l + m : (\E i \in 1 .. l : t[k] = ledger[i]) \/ \E i \in 1 .. m : t[k] = w[i]
  BY <1>6, <1>10, Zenon
<1>14. (\A i \in 1 .. l : \E k \in 1 .. l + m : t[k] = ledger[i]) /\ \A i \in 1 .. m : \E k \in 1 .. l + m : t[k] = w[i]
  BY <1>6, <1>8, <1>9, Zenon
<1>15. (\A i \in 1 .. l : ledger[i].number \in Nat) /\ \A i \in 1 .. m : w[i].number \in Nat
  BY <1>3, <1>4, <1>5, Zenon
<1>11. \A k \in DOMAIN t : t[k].number \in Nat
  BY <1>7, <1>13, <1>15, Zenon
<1>12. ASSUME NEW s, NEW n PROVE Has(t, s, n) <=> Has(ledger, s, n) \/ Has(w, s, n)
  <2>1. /\ Has(t, s, n) <=> \E k \in 1 .. l + m : t[k].series = s /\ t[k].number = n
        /\ Has(w, s, n) <=> \E k \in 1 .. m : w[k].series = s /\ w[k].number = n
        /\ Has(ledger, s, n) <=> \E k \in 1 .. l : ledger[k].series = s /\ ledger[k].number = n
    BY <1>5, <1>7, Zenon DEF Has
  <2>2. Has(t, s, n) => Has(ledger, s, n) \/ Has(w, s, n)
    BY <1>13, <2>1, Zenon
  <2>3. Has(ledger, s, n) \/ Has(w, s, n) => Has(t, s, n)
    BY <1>14, <2>1, Zenon
  <2> QED
    BY <2>2, <2>3
<1> QED
  BY <1>1, <1>6, <1>11, <1>12 DEF t

LEMMA HandKeeps ==
  ASSUME ImportsInv, NEW v \in OwnPosts, PostByHand(v)
  PROVE  ImportsInv'
<1> DEFINE n == NextNumber(ledger, v.series)
           x == Row(v, n, "hand")
           w == <<x>>
<1>1. ledger' = Append(ledger, x) /\ imp' = imp /\ Validate(v.lines)
  BY DEF PostByHand
<1>2. Sequence(ledger) /\ LedgerOK
  BY DEF ImportsInv, LedgerOK
<1>3. n \in Nat /\ n >= 1
  BY <1>2, NumbersAre, NextNumberIs
<1>4. v.date \in Nat /\ "hand" \notin Import
  BY SieAssumption
<1>5. x.date \in Nat /\ x.number \in Nat /\ x.number >= 1 /\ x.lines = v.lines /\ x.by = "hand"
  <2> HIDE DEF n
  <2> QED
    BY <1>3, <1>4 DEF Row
<1> HIDE DEF x
<1>6. Sequence(w) /\ Len(w) = 1 /\ w[1] = x
  BY SequenceOne
<1>7. ledger' = ledger \o w
  BY <1>1, <1>2, AppendIs
<1> HIDE DEF w
<1>8. \A i \in 1 .. 1 : w[i] = x
  BY <1>6
<1>9. RowsOK(w, "hand")
  BY <1>1, <1>5, <1>6, <1>8 DEF RowsOK
<1>10. \A q \in Import : Done(q) => Done(q)'
  BY <1>1 DEF Done
<1>11. LedgerOK'
  BY <1>2, <1>4, <1>7, <1>9, <1>10, LedgerGrows
<1>12. ASSUME NEW q \in Import PROVE DoneOK(q, imp'[q], ledger')
  <2>1. DoneOK(q, imp[q], ledger)
    BY DEF ImportsInv
  <2>2. \A i \in 1 .. Len(w) : w[i].by # q
    BY <1>4, <1>5, <1>6, <1>8
  <2>3. DoneOK(q, imp[q], ledger \o w)
    BY <1>2, <1>6, <2>1, <2>2, DoneStays
  <2> QED
    BY <1>1, <1>7, <2>3
<1> QED
  BY <1>1, <1>11, <1>12 DEF ImportsInv

\* One step of the import r, or of its transaction's end.
LEMMA ImportKeeps ==
  ASSUME ImportsInv, NEW r \in Import, ImportSIE(r) \/ Fails(r) \/ DeadlockDetected(r)
  PROVE  ImportsInv'
<1>1. CASE CountVerifications(r)
  <2>1. imp[r].at = "count" /\ UNCHANGED ledger
    BY <1>1 DEF CountVerifications
  <2>2. CASE ledger = << >>
    <3>1. goto(r, [imp[r] EXCEPT !.at = "seed"])
      BY <1>1, <2>2 DEF CountVerifications
    <3>2. Moved(imp[r], [imp[r] EXCEPT !.at = "seed"], "seed", imp[r].number)
      BY <2>1, JobIs, JobMoved
    <3>3. PICK c : c = [imp[r] EXCEPT !.at = "seed"]
      OBVIOUS
    <3>4. "seed" \in InTx /\ imp[r].at \in InTx \cup {"count"}
      BY <2>1 DEF InTx
    <3> QED
      BY <2>1, <3>1, <3>2, <3>3, <3>4, MoveKeeps
  <2>3. CASE ledger # << >>
    BY <1>1, <2>1, <2>3, RollbackKeeps DEF CountVerifications
  <2> QED
    BY <2>2, <2>3
<1>2. CASE UpsertAccount(r)
  <2>1. imp[r].at = "seed" /\ UNCHANGED ledger /\ goto(r, [imp[r] EXCEPT !.at = "number"])
    BY <1>2 DEF UpsertAccount
  <2>2. "number" \in InTx /\ imp[r].at \in InTx \cup {"count"}
    BY <2>1 DEF InTx
  <2>3. Moved(imp[r], [imp[r] EXCEPT !.at = "number"], "number", imp[r].number)
    BY <2>2, JobIs, JobMoved
  <2>4. PICK c : c = [imp[r] EXCEPT !.at = "number"]
    OBVIOUS
  <2> QED
    BY <2>1, <2>2, <2>3, <2>4, MoveKeeps
<1>3. CASE NextVerificationNumber(r)
  <2> DEFINE n == NextNumber(ledger \o imp[r].rows, Head(imp[r].todo).series)
             c == [imp[r] EXCEPT !.at = "insert", !.number = n]
  <2>1. imp[r].at = "number" /\ imp[r].todo # << >> /\ UNCHANGED ledger
    BY <1>3 DEF NextVerificationNumber
  <2>2. "insert" \in InTx /\ imp[r].at \in InTx \cup {"count"}
    BY <2>1 DEF InTx
  <2>3. CASE rollback(r)
    BY <2>1, <2>2, <2>3, RollbackKeeps
  <2>4. CASE Validate(Head(imp[r].todo).lines) /\ goto(r, c)
    <3>1. Moved(imp[r], c, "insert", n)
      BY <2>2, JobIs, JobMoved
    <3>2. n \in Nat /\ n >= 1
      BY <2>2, OwnNumbersAre, NextNumberIs
    <3> HIDE DEF n, c
    <3> QED
      BY <2>1, <2>2, <2>4, <3>1, <3>2, MoveKeeps
  <2>5. rollback(r) \/ (Validate(Head(imp[r].todo).lines) /\ goto(r, c))
    BY <1>3 DEF NextVerificationNumber
  <2> QED
    BY <2>3, <2>4, <2>5
<1>4. CASE InsertVerification(r)
  <2>1. imp[r].at = "insert" /\ UNCHANGED ledger /\ (rollback(r) \/ goto(r, inserted(r)))
    BY <1>4 DEF InsertVerification
  <2>2. imp[r].at \in InTx \cup {"count"}
    BY <2>1 DEF InTx
  <2> QED
    BY <2>1, <2>2, RollbackKeeps, InsertKeeps
<1>5. CASE logAudit(r)
  <2>1. /\ imp[r].at = "number" /\ imp[r].todo = << >> /\ UNCHANGED ledger
        /\ goto(r, [imp[r] EXCEPT !.at = "commit"])
    BY <1>5 DEF logAudit
  <2>2. "commit" \in InTx /\ imp[r].at \in InTx \cup {"count"}
    BY <2>1 DEF InTx
  <2>3. Moved(imp[r], [imp[r] EXCEPT !.at = "commit"], "commit", imp[r].number)
    BY <2>2, JobIs, JobMoved
  <2>4. PICK c : c = [imp[r] EXCEPT !.at = "commit"]
    OBVIOUS
  <2> QED
    BY <2>1, <2>2, <2>3, <2>4, MoveKeeps
<1>6. CASE Commit(r)
  BY <1>6, CommitKeeps
<1>7. CASE Fails(r)
  <2>1. imp[r].at \in InTx \cup {"count"} /\ rollback(r) /\ UNCHANGED ledger
    BY <1>7 DEF Fails, Working
  <2> QED
    BY <2>1, RollbackKeeps
<1>8. CASE DeadlockDetected(r)
  <2>1. imp[r].at \in InTx \cup {"count"} /\ rollback(r) /\ UNCHANGED ledger
    BY <1>8 DEF DeadlockDetected, Blockers, InTx
  <2> QED
    BY <2>1, RollbackKeeps
<1> QED
  BY <1>1, <1>2, <1>3, <1>4, <1>5, <1>6, <1>7, <1>8 DEF ImportSIE

LEMMA ImportsStep ==
  ASSUME ImportsInv, FilesFine, [SieNext]_sieVars
  PROVE  ImportsInv'
<1>1. CASE UNCHANGED <<ledger, imp>>
  <2>1. ledger' = ledger /\ imp' = imp
    BY <1>1
  <2> QED
    BY <2>1 DEF ImportsInv, LedgerOK, Done
<1>2. CASE \E r \in Import, f \in Foreign \cup Range(file) : handleSIEImport(r, f)
  BY <1>2, StartKeeps
<1>3. CASE \E r \in Import : ImportSIE(r) \/ Fails(r) \/ DeadlockDetected(r)
  BY <1>3, ImportKeeps
<1>4. CASE \E v \in OwnPosts : PostByHand(v)
  BY <1>4, HandKeeps
<1>5. CASE \E v \in Vouchers : PostVoucher(v)
  BY <1>1, <1>5 DEF PostVoucher
<1>6. CASE ExportSIE \/ readOpening \/ readClosing \/ Write
  BY <1>1, <1>6 DEF ExportSIE, readOpening, readClosing, Write
<1> QED
  BY <1>1, <1>2, <1>3, <1>4, <1>5, <1>6 DEF SieNext, sieVars

-----------------------------------------------------------------------------
(* The numbers of an import                                                *)

Distinct(rows) ==
  \A k, l \in DOMAIN rows : rows[k].series = rows[l].series /\ rows[k].number = rows[l].number => k = l

\* The import r sees the number n of the series s.
Sees(r, s, n) == Has(ledger, s, n) \/ Has(imp[r].rows, s, n)

RowsNumbered(r) ==
  /\ Distinct(imp[r].rows)
  /\ \A k \in DOMAIN imp[r].rows :
       LET s == imp[r].rows[k].series
           n == imp[r].rows[k].number
       IN  /\ ~Has(ledger, s, n)
           /\ \A q \in Import \ {r} : Working(q) => ~Has(imp[q].rows, s, n)
           /\ n > 1 => Sees(r, s, n - 1)

\* The number an import is about to use follows one it sees.
Ready(c, rows) ==
  LET s == Head(c.todo).series
  IN  c.at = "insert" =>
        /\ ~Has(c.rows, s, c.number)
        /\ c.number > 1 => Has(rows, s, c.number - 1) \/ Has(c.rows, s, c.number - 1)

\* What is committed leaves no gap.  What an import has not committed yet leaves
\* none after what is, and no two imports hold the same number.
NumbersInv ==
  /\ Distinct(ledger)
  /\ \A k \in DOMAIN ledger : ledger[k].number > 1 => Has(ledger, ledger[k].series, ledger[k].number - 1)
  /\ \A r \in Import : Working(r) =>
       RowsNumbered(r) /\ Ready(imp[r], ledger)

LEMMA NothingHas ==
  /\ \A s, n : ~Has(<< >>, s, n)
  /\ Distinct(<< >>) /\ DOMAIN << >> = {}
  BY SequenceEmpty DEF Has, Distinct

\* An import that stays as it is, or ends, does nothing to the numbers.
LEMMA NumbersMove ==
  ASSUME NumbersInv, DOMAIN imp = Import, NEW r \in Import, NEW c, goto(r, c), UNCHANGED ledger,
         \/ c.at \notin InTx \cup {"count"}
         \/ c.at = "count" /\ c.rows = << >>
         \/ Working(r) /\ c.rows = imp[r].rows /\ Ready(c, ledger)
  PROVE  NumbersInv'
<1>1. DOMAIN imp' = Import /\ imp'[r] = c /\ \A q \in Import \ {r} : imp'[q] = imp[q]
  BY GotoIs
<1>2. \A q \in Import : Working(q)' =>
        \/ Working(q) /\ imp'[q].rows = imp[q].rows
        \/ imp'[q].rows = << >>
  BY <1>1 DEF Working, InTx
<1>3. ASSUME NEW q \in Import, Working(q)' PROVE RowsNumbered(q)'
  <2>1. CASE imp'[q].rows = << >>
    BY <2>1, NothingHas DEF RowsNumbered
  <2>2. CASE Working(q) /\ imp'[q].rows = imp[q].rows
    <3>1. RowsNumbered(q)
      BY <2>2 DEF NumbersInv
    <3>2. PICK w : w = imp[q].rows /\ w = imp'[q].rows
      BY <2>2
    <3>3. Distinct(w)
      BY <3>1, <3>2 DEF RowsNumbered
    <3>4. ASSUME NEW k \in DOMAIN w
          PROVE  LET s == w[k].series
                     n == w[k].number
                 IN  /\ ~Has(ledger', s, n)
                     /\ \A p \in Import \ {q} : Working(p)' => ~Has(imp'[p].rows, s, n)
                     /\ n > 1 => Sees(q, s, n - 1)'
      <4>1. PICK s, n : s = w[k].series /\ n = w[k].number
        OBVIOUS
      <4>2. /\ ~Has(ledger, s, n)
            /\ \A p \in Import \ {q} : Working(p) => ~Has(imp[p].rows, s, n)
            /\ n > 1 => Sees(q, s, n - 1)
        BY <3>1, <3>2, <4>1 DEF RowsNumbered
      <4>3. \A p \in Import \ {q} : Working(p)' => ~Has(imp'[p].rows, s, n)
        BY <1>2, <4>2, NothingHas
      <4>4. n > 1 => Sees(q, s, n - 1)'
        BY <2>2, <4>2 DEF Sees
      <4> QED
        BY <4>1, <4>2, <4>3, <4>4
    <3> QED
      BY <3>2, <3>3, <3>4 DEF RowsNumbered
  <2> QED
    BY <1>2, <1>3, <2>1, <2>2
<1>4. ASSUME NEW q \in Import, Working(q)' PROVE Ready(imp'[q], ledger')
  <2>1. CASE q = r
    <3>1. c.at = "insert" => Ready(c, ledger)
      BY DEF InTx
    <3> QED
      BY <1>1, <2>1, <3>1 DEF Ready
  <2>2. CASE q # r
    <3>1. imp'[q] = imp[q]
      BY <1>1, <2>2
    <3>2. Working(q)
      BY <1>4, <3>1 DEF Working
    <3> QED
      BY <3>1, <3>2 DEF NumbersInv
  <2> QED
    BY <2>1, <2>2
<1>5. /\ Distinct(ledger')
      /\ \A k \in DOMAIN ledger' : ledger'[k].number > 1 => Has(ledger', ledger'[k].series, ledger'[k].number - 1)
  <2>1. ledger' = ledger
    OBVIOUS
  <2> QED
    BY <2>1 DEF NumbersInv
<1> QED
  BY <1>3, <1>4, <1>5 DEF NumbersInv

LEMMA NumbersRollback ==
  ASSUME NumbersInv, DOMAIN imp = Import, NEW r \in Import, rollback(r), UNCHANGED ledger
  PROVE  NumbersInv'
<1> DEFINE c == [at |-> "failed", file |-> imp[r].file]
<1>1. goto(r, c)
  BY DEF rollback
<1>2. c.at \notin InTx \cup {"count"}
  BY DEF InTx
<1> HIDE DEF c
<1> QED
  BY <1>1, <1>2, NumbersMove

\* One row more.
LEMMA HasAppend ==
  ASSUME NEW rows, Sequence(rows), NEW x
  PROVE  LET t == Append(rows, x)
         IN  /\ \A s, n : Has(t, s, n) <=> Has(rows, s, n) \/ (x.series = s /\ x.number = n)
             /\ Distinct(rows) /\ ~Has(rows, x.series, x.number) => Distinct(t)
             /\ \A k \in DOMAIN t : t[k] = x \/ \E i \in DOMAIN rows : t[k] = rows[i]
<1> DEFINE t == Append(rows, x)
<1>1. PICK l \in Nat : l = Len(rows) /\ DOMAIN rows = 1 .. l
  BY SequenceIs
<1>2. Sequence(t) /\ Len(t) = l + 1 /\ (\A i \in 1 .. l : t[i] = rows[i]) /\ t[l + 1] = x
  BY <1>1, SequenceAppend
<1> HIDE DEF t
<1>3. DOMAIN t = 1 .. l + 1
  BY <1>2, SequenceIs
<1>4. 1 .. l + 1 = (1 .. l) \cup {l + 1} /\ l + 1 \notin 1 .. l
  OBVIOUS
<1>5. PICK D, m : D = DOMAIN rows /\ m = l + 1 /\ DOMAIN t = D \cup {m} /\ m \notin D
  BY <1>1, <1>3, <1>4
<1>6. (\A i \in D : t[i] = rows[i]) /\ t[m] = x
  BY <1>1, <1>2, <1>5
<1>7. ASSUME NEW s, NEW n PROVE Has(t, s, n) <=> Has(rows, s, n) \/ (x.series = s /\ x.number = n)
  BY <1>5, <1>6, Zenon DEF Has
<1>8. ASSUME Distinct(rows), ~Has(rows, x.series, x.number) PROVE Distinct(t)
  <2> SUFFICES ASSUME NEW i \in D \cup {m}, NEW j \in D \cup {m},
                      t[i].series = t[j].series, t[i].number = t[j].number
               PROVE  i = j
    BY <1>5 DEF Distinct
  <2>1. \A k \in D : ~(t[k].series = x.series /\ t[k].number = x.number)
    BY <1>5, <1>6, <1>8 DEF Has
  <2>2. CASE i \in D /\ j \in D
    BY <1>5, <1>6, <1>8, <2>2 DEF Distinct
  <2>3. CASE i = m \/ j = m
    BY <1>5, <1>6, <2>1, <2>3
  <2> QED
    BY <2>2, <2>3
<1>9. \A k \in DOMAIN t : t[k] = x \/ \E i \in DOMAIN rows : t[k] = rows[i]
  BY <1>5, <1>6
<1> QED
  BY <1>7, <1>8, <1>9 DEF t

LEMMA NumbersInsert ==
  ASSUME NumbersInv, ImportsInv, NEW r \in Import, imp[r].at = "insert", goto(r, inserted(r)), UNCHANGED ledger,
         Blockers(r) = {}, ~Taken(Head(imp[r].todo).series, imp[r].number)
  PROVE  NumbersInv'
<1> DEFINE c == imp[r]
           d == inserted(r)
           x == rowOf(r)
<1>1. JobOK(r, c) /\ Job(c) /\ Working(r)
  BY JobIs DEF Working, InTx
<1>2. Sequence(c.rows)
  BY <1>1 DEF JobOK
<1>3. d.at = "number" /\ d.rows = Append(c.rows, x)
  BY <1>1, JobInserted DEF inserted
<1>4. x.series = Head(c.todo).series /\ x.number = c.number
  BY DEF rowOf, Row
<1>5. DOMAIN imp' = Import /\ imp'[r] = d /\ \A q \in Import \ {r} : imp'[q] = imp[q]
  BY GotoIs DEF ImportsInv
<1>6. RowsNumbered(r) /\ Ready(c, ledger)
  BY <1>1 DEF NumbersInv
<1>7. PICK s, n : s = x.series /\ n = x.number
  OBVIOUS
<1>8. ~Has(c.rows, s, n) /\ (n > 1 => Has(ledger, s, n - 1) \/ Has(c.rows, s, n - 1))
  BY <1>4, <1>6, <1>7 DEF Ready
<1>9. ~Has(ledger, s, n)
  BY <1>4, <1>7 DEF Taken, Range, Has
<1>10. \A q \in Import \ {r} : Working(q) => ~Has(imp[q].rows, s, n)
  <2> SUFFICES ASSUME NEW q \in Import \ {r}, Working(q) PROVE ~Has(imp[q].rows, s, n)
    OBVIOUS
  <2>1. JobOK(q, imp[q])
    BY JobIs DEF Working
  <2>2. CASE imp[q].at \in {"count", "seed"}
    <3>1. imp[q].rows = << >>
      BY <2>1, <2>2 DEF JobOK
    <3> QED
      BY <3>1, NothingHas
  <2>3. CASE imp[q].at \notin {"count", "seed"}
    <3>1. Open(q)
      BY <2>3 DEF Open, Working, InTx
    <3>2. ~\E v \in Range(imp[q].rows) : v.series = Head(c.todo).series /\ v.number = c.number
      BY <3>1 DEF Blockers
    <3> QED
      BY <1>4, <1>7, <3>2 DEF Range, Has
  <2> QED
    BY <2>2, <2>3
<1> HIDE DEF c, d, x
<1>11. PICK w : w = d.rows
  OBVIOUS
<1>12. /\ \A a, b : Has(w, a, b) <=> Has(c.rows, a, b) \/ (s = a /\ n = b)
       /\ Distinct(w)
       /\ \A k \in DOMAIN w : w[k] = x \/ \E i \in DOMAIN c.rows : w[k] = c.rows[i]
  <2>1. Distinct(c.rows)
    BY <1>6 DEF RowsNumbered, c
  <2> QED
    BY <1>2, <1>3, <1>7, <1>8, <1>11, <2>1, HasAppend
<1>13. \A q \in Import : Working(q)' => Working(q)
  BY <1>1, <1>5 DEF Working
<1>14. RowsNumbered(r)'
  <2>1. \A p \in Import \ {r} : imp'[p] = imp[p] /\ (Working(p)' => Working(p))
    BY <1>5, <1>13
  <2>2. ASSUME NEW k \in DOMAIN w
        PROVE  /\ ~Has(ledger, w[k].series, w[k].number)
               /\ \A q \in Import \ {r} : Working(q) => ~Has(imp[q].rows, w[k].series, w[k].number)
               /\ w[k].number > 1 => Has(ledger, w[k].series, w[k].number - 1) \/ Has(w, w[k].series, w[k].number - 1)
    <3>1. CASE w[k] = x
      BY <1>7, <1>8, <1>9, <1>10, <1>12, <3>1
    <3>2. ASSUME NEW i \in DOMAIN c.rows, w[k] = c.rows[i]
          PROVE  /\ ~Has(ledger, w[k].series, w[k].number)
                 /\ \A q \in Import \ {r} : Working(q) => ~Has(imp[q].rows, w[k].series, w[k].number)
                 /\ w[k].number > 1 => Has(ledger, w[k].series, w[k].number - 1) \/ Has(w, w[k].series, w[k].number - 1)
      <4>1. PICK a, b : a = w[k].series /\ b = w[k].number
        OBVIOUS
      <4>2. /\ ~Has(ledger, a, b)
            /\ \A q \in Import \ {r} : Working(q) => ~Has(imp[q].rows, a, b)
            /\ b > 1 => Has(ledger, a, b - 1) \/ Has(c.rows, a, b - 1)
        BY <1>6, <3>2, <4>1 DEF RowsNumbered, Sees, c
      <4> QED
        BY <1>12, <4>1, <4>2
    <3> QED
      BY <1>12, <3>1, <3>2
  <2>3. imp'[r].rows = w /\ ledger' = ledger
    BY <1>5, <1>11
  <2> QED
    BY <1>12, <2>1, <2>2, <2>3 DEF RowsNumbered, Sees
<1>15. ASSUME NEW q \in Import \ {r}, Working(q)' PROVE RowsNumbered(q)'
  <2>1. imp'[q] = imp[q] /\ RowsNumbered(q)
    BY <1>5, <1>13, <1>15 DEF NumbersInv
  <2>2. PICK u : u = imp[q].rows /\ u = imp'[q].rows
    BY <2>1
  <2>3. \A k \in DOMAIN u : ~(u[k].series = s /\ u[k].number = n)
    BY <1>10, <1>13, <1>15, <2>2 DEF Has
  <2>4. ASSUME NEW k \in DOMAIN u, NEW p \in Import \ {q}, Working(p)'
        PROVE  ~Has(imp'[p].rows, u[k].series, u[k].number)
    <3>1. PICK a, b : a = u[k].series /\ b = u[k].number
      OBVIOUS
    <3>2. ~Has(imp[p].rows, a, b) /\ ~(a = s /\ b = n)
      BY <1>13, <2>1, <2>2, <2>3, <2>4, <3>1 DEF RowsNumbered
    <3>3. CASE p = r
      <4>1. imp'[p].rows = w /\ imp[p].rows = c.rows
        BY <1>5, <1>11, <3>3 DEF c
      <4> QED
        BY <1>12, <3>1, <3>2, <4>1
    <3>4. CASE p # r
      BY <1>5, <3>1, <3>2, <3>4
    <3> QED
      BY <3>3, <3>4
  <2>5. Distinct(u) /\ \A k \in DOMAIN u : /\ ~Has(ledger, u[k].series, u[k].number)
                                           /\ u[k].number > 1 => Sees(q, u[k].series, u[k].number - 1)
    BY <2>1, <2>2 DEF RowsNumbered
  <2>6. \A k \in DOMAIN u : u[k].number > 1 => Sees(q, u[k].series, u[k].number - 1)'
    BY <2>1, <2>5 DEF Sees
  <2> QED
    BY <2>2, <2>4, <2>5, <2>6 DEF RowsNumbered
<1>16. ASSUME NEW q \in Import, Working(q)' PROVE Ready(imp'[q], ledger')
  <2>1. CASE q = r
    BY <1>3, <1>5, <2>1 DEF Ready
  <2>2. CASE q # r
    BY <1>5, <1>13, <1>16, <2>2 DEF NumbersInv
  <2> QED
    BY <2>1, <2>2
<1>17. /\ Distinct(ledger')
       /\ \A k \in DOMAIN ledger' : ledger'[k].number > 1 => Has(ledger', ledger'[k].series, ledger'[k].number - 1)
  <2>1. ledger' = ledger
    OBVIOUS
  <2> QED
    BY <2>1 DEF NumbersInv
<1> QED
  BY <1>14, <1>15, <1>16, <1>17 DEF NumbersInv

LEMMA HasConcat ==
  ASSUME NEW rows, Sequence(rows), NEW more, Sequence(more)
  PROVE  LET t == rows \o more
         IN  /\ \A s, n : Has(t, s, n) <=> Has(rows, s, n) \/ Has(more, s, n)
             /\ /\ Distinct(rows) /\ Distinct(more)
                /\ \A k \in DOMAIN more : ~Has(rows, more[k].series, more[k].number)
                => Distinct(t)
             /\ \A k \in DOMAIN t : (\E i \in DOMAIN rows : t[k] = rows[i]) \/ \E i \in DOMAIN more : t[k] = more[i]
<1> DEFINE t == rows \o more
<1>1. PICK l \in Nat, m \in Nat : l = Len(rows) /\ m = Len(more) /\ DOMAIN rows = 1 .. l /\ DOMAIN more = 1 .. m
  BY SequenceIs
<1>2. /\ Sequence(t) /\ Len(t) = l + m
      /\ \A i \in 1 .. l : t[i] = rows[i]
      /\ \A i \in 1 .. m : t[l + i] = more[i]
  BY <1>1, SequenceConcat
<1> HIDE DEF t
<1>3. DOMAIN t = 1 .. l + m
  BY <1>2, SequenceIs
<1>4. \A i \in 1 .. l : i \in 1 .. l + m
  OBVIOUS
<1>5. \A i \in 1 .. m : l + i \in 1 .. l + m
  OBVIOUS
<1>6. \A k \in 1 .. l + m : k \in 1 .. l \/ \E i \in 1 .. m : k = l + i
  <2> TAKE k \in 1 .. l + m
  <2>1. k \notin 1 .. l => k - l \in 1 .. m /\ k = l + (k - l)
    OBVIOUS
  <2> QED
    BY <2>1
<1>7. \A k \in DOMAIN t : (\E i \in DOMAIN rows : t[k] = rows[i]) \/ \E i \in DOMAIN more : t[k] = more[i]
  <2> SUFFICES ASSUME NEW k \in 1 .. l + m
               PROVE  (\E i \in 1 .. l : t[k] = rows[i]) \/ \E i \in 1 .. m : t[k] = more[i]
    BY <1>1, <1>3, Zenon
  <2>1. CASE k \in 1 .. l
    BY <1>2, <2>1, Zenon
  <2>2. CASE \E i \in 1 .. m : k = l + i
    BY <1>2, <2>2, Zenon
  <2> QED
    BY <1>6, <2>1, <2>2, Zenon
<1>8. /\ \A i \in DOMAIN rows : \E k \in DOMAIN t : t[k] = rows[i]
      /\ \A i \in DOMAIN more : \E k \in DOMAIN t : t[k] = more[i]
  BY <1>1, <1>2, <1>3, <1>4, <1>5, Zenon
<1>9. ASSUME NEW s, NEW n PROVE Has(t, s, n) <=> Has(rows, s, n) \/ Has(more, s, n)
  <2>1. Has(t, s, n) => Has(rows, s, n) \/ Has(more, s, n)
    BY <1>7, Zenon DEF Has
  <2>2. Has(rows, s, n) \/ Has(more, s, n) => Has(t, s, n)
    BY <1>8, Zenon DEF Has
  <2> QED
    BY <2>1, <2>2
<1>10. ASSUME Distinct(rows), Distinct(more),
              \A k \in DOMAIN more : ~Has(rows, more[k].series, more[k].number)
       PROVE  Distinct(t)
  <2> SUFFICES ASSUME NEW i \in 1 .. l + m, NEW j \in 1 .. l + m,
                      t[i].series = t[j].series, t[i].number = t[j].number
               PROVE  i = j
    BY <1>3 DEF Distinct
  <2>1. \A a \in 1 .. l, b \in 1 .. m : ~(rows[a].series = more[b].series /\ rows[a].number = more[b].number)
    BY <1>1, <1>10 DEF Has
  <2>2. CASE i \in 1 .. l /\ j \in 1 .. l
    <3>1. t[i] = rows[i] /\ t[j] = rows[j]
      BY <1>2, <2>2
    <3> QED
      BY <1>1, <1>10, <2>2, <3>1 DEF Distinct
  <2>3. CASE i \in 1 .. l /\ j \notin 1 .. l
    <3>1. PICK b \in 1 .. m : j = l + b
      BY <1>6, <2>3
    <3>2. t[i] = rows[i] /\ t[j] = more[b]
      BY <1>2, <2>3, <3>1
    <3> QED
      BY <2>1, <2>3, <3>2
  <2>4. CASE i \notin 1 .. l /\ j \in 1 .. l
    <3>1. PICK b \in 1 .. m : i = l + b
      BY <1>6, <2>4
    <3>2. t[j] = rows[j] /\ t[i] = more[b]
      BY <1>2, <2>4, <3>1
    <3> QED
      BY <2>1, <2>4, <3>2
  <2>5. CASE i \notin 1 .. l /\ j \notin 1 .. l
    <3>1. PICK a \in 1 .. m, b \in 1 .. m : i = l + a /\ j = l + b
      BY <1>6, <2>5
    <3>2. t[i] = more[a] /\ t[j] = more[b]
      BY <1>2, <3>1
    <3>3. a = b
      BY <1>1, <1>10, <3>2 DEF Distinct
    <3> QED
      BY <3>1, <3>3
  <2> QED
    BY <2>2, <2>3, <2>4, <2>5
<1> QED
  BY <1>7, <1>9, <1>10 DEF t

\* Rows that leave no gap after the committed ones become committed.
LEMMA NumbersGrow ==
  ASSUME NumbersInv, Sequence(ledger), NEW more, Sequence(more), ledger' = ledger \o more, Distinct(more),
         \A k \in DOMAIN more :
           LET s == more[k].series
               n == more[k].number
           IN  /\ ~Has(ledger, s, n)
               /\ n > 1 => Has(ledger, s, n - 1) \/ Has(more, s, n - 1)
               /\ \A q \in Import : Working(q)' => ~Has(imp[q].rows, s, n),
         \A q \in Import : Working(q)' => Working(q) /\ imp'[q] = imp[q]
  PROVE  NumbersInv'
<1>1. PICK t : t = ledger'
  OBVIOUS
<1>2. /\ \A s, n : Has(t, s, n) <=> Has(ledger, s, n) \/ Has(more, s, n)
      /\ Distinct(t)
      /\ \A k \in DOMAIN t : (\E i \in DOMAIN ledger : t[k] = ledger[i]) \/ \E i \in DOMAIN more : t[k] = more[i]
  <2>1. Distinct(ledger)
    BY DEF NumbersInv
  <2>2. \A k \in DOMAIN more : ~Has(ledger, more[k].series, more[k].number)
    OBVIOUS
  <2> QED
    BY <1>1, <2>1, <2>2, HasConcat
<1>3. ASSUME NEW k \in DOMAIN t PROVE t[k].number > 1 => Has(t, t[k].series, t[k].number - 1)
  <2>1. PICK s, n : s = t[k].series /\ n = t[k].number
    OBVIOUS
  <2>2. ASSUME NEW i \in DOMAIN ledger, t[k] = ledger[i], n > 1 PROVE Has(t, s, n - 1)
    <3>1. Has(ledger, s, n - 1)
      BY <2>1, <2>2 DEF NumbersInv
    <3> QED
      BY <1>2, <3>1
  <2>3. ASSUME NEW i \in DOMAIN more, t[k] = more[i], n > 1 PROVE Has(t, s, n - 1)
    <3>1. Has(ledger, s, n - 1) \/ Has(more, s, n - 1)
      BY <2>1, <2>3
    <3> QED
      BY <1>2, <3>1
  <2> QED
    BY <1>2, <2>1, <2>2, <2>3
<1>4. ASSUME NEW q \in Import, Working(q)' PROVE RowsNumbered(q)'
  <2>1. imp'[q] = imp[q] /\ RowsNumbered(q)
    BY <1>4 DEF NumbersInv
  <2>2. PICK u : u = imp[q].rows /\ u = imp'[q].rows
    BY <2>1
  <2>3. ASSUME NEW k \in DOMAIN u
        PROVE  /\ ~Has(t, u[k].series, u[k].number)
               /\ \A p \in Import \ {q} : Working(p)' => ~Has(imp'[p].rows, u[k].series, u[k].number)
               /\ u[k].number > 1 => Has(t, u[k].series, u[k].number - 1) \/ Has(u, u[k].series, u[k].number - 1)
    <3>1. PICK a, b : a = u[k].series /\ b = u[k].number
      OBVIOUS
    <3>2. /\ ~Has(ledger, a, b)
          /\ \A p \in Import \ {q} : Working(p) => ~Has(imp[p].rows, a, b)
          /\ b > 1 => Has(ledger, a, b - 1) \/ Has(u, a, b - 1)
      BY <2>1, <2>2, <3>1 DEF RowsNumbered, Sees
    <3>3. ~Has(more, a, b)
      <4> SUFFICES ASSUME NEW j \in DOMAIN more, more[j].series = a, more[j].number = b PROVE FALSE
        BY DEF Has
      <4>1. ~Has(u, a, b)
        BY <1>4, <2>2
      <4> QED
        BY <3>1, <4>1 DEF Has
    <3> QED
      BY <1>2, <3>1, <3>2, <3>3
  <2>4. Distinct(u)
    BY <2>1, <2>2 DEF RowsNumbered
  <2> QED
    BY <1>1, <2>2, <2>3, <2>4 DEF RowsNumbered, Sees
<1>5. ASSUME NEW q \in Import, Working(q)' PROVE Ready(imp'[q], ledger')
  <2>1. imp'[q] = imp[q] /\ Ready(imp[q], ledger)
    BY <1>5 DEF NumbersInv
  <2>2. \A s, n : Has(ledger, s, n) => Has(ledger', s, n)
    BY <1>1, <1>2
  <2> QED
    BY <2>1, <2>2 DEF Ready
<1> QED
  BY <1>1, <1>2, <1>3, <1>4, <1>5 DEF NumbersInv

LEMMA NumbersCommit ==
  ASSUME NumbersInv, ImportsInv, NEW r \in Import, Commit(r)
  PROVE  NumbersInv'
<1>1. imp[r].at = "commit" /\ ledger' = ledger \o imp[r].rows /\ goto(r, [at |-> "done", file |-> imp[r].file])
  BY DEF Commit
<1>2. JobOK(r, imp[r]) /\ Working(r)
  BY <1>1, JobIs DEF Working, InTx
<1>3. PICK w : w = imp[r].rows /\ Sequence(w)
  BY <1>2 DEF JobOK
<1>4. PICK d : d = [at |-> "done", file |-> imp[r].file]
  OBVIOUS
<1>5. d.at \notin InTx \cup {"count"}
  BY <1>4 DEF InTx
<1>6. DOMAIN imp' = Import /\ imp'[r] = d /\ \A q \in Import \ {r} : imp'[q] = imp[q]
  BY <1>1, <1>4, GotoIs DEF ImportsInv
<1>7. \A q \in Import : Working(q)' => q # r /\ Working(q) /\ imp'[q] = imp[q]
  BY <1>5, <1>6 DEF Working
<1>8. RowsNumbered(r)
  BY <1>2 DEF NumbersInv
<1>9. Distinct(w)
  BY <1>3, <1>8 DEF RowsNumbered
<1>10. \A k \in DOMAIN w :
         LET s == w[k].series
             n == w[k].number
         IN  /\ ~Has(ledger, s, n)
             /\ n > 1 => Has(ledger, s, n - 1) \/ Has(w, s, n - 1)
             /\ \A q \in Import : Working(q)' => ~Has(imp[q].rows, s, n)
  BY <1>3, <1>7, <1>8 DEF RowsNumbered, Sees
<1>11. Sequence(ledger) /\ ledger' = ledger \o w
  BY <1>1, <1>3 DEF ImportsInv, LedgerOK
<1> QED
  BY <1>3, <1>7, <1>9, <1>10, <1>11, NumbersGrow

LEMMA NumbersHand ==
  ASSUME NumbersInv, ImportsInv, NEW v \in OwnPosts, PostByHand(v)
  PROVE  NumbersInv'
<1> DEFINE n == NextNumber(ledger, v.series)
           x == Row(v, n, "hand")
           w == <<x>>
<1>1. /\ ledger' = Append(ledger, x) /\ imp' = imp
      /\ \A q \in Import : Open(q) => ~\E y \in Range(imp[q].rows) : y.series = v.series /\ y.number = n
  BY DEF PostByHand
<1>2. Sequence(ledger)
  BY DEF ImportsInv, LedgerOK
<1>3. n \in Nat /\ ~Has(ledger, v.series, n) /\ (n > 1 => Has(ledger, v.series, n - 1))
  BY <1>2, NumbersAre, NextNumberIs
<1>4. x.series = v.series /\ x.number = n
  BY DEF Row
<1> HIDE DEF n, x
<1>5. Sequence(w) /\ Len(w) = 1 /\ w[1] = x
  BY SequenceOne
<1>6. ledger' = ledger \o w
  BY <1>1, <1>2, AppendIs
<1> HIDE DEF w
<1>7. DOMAIN w = {1}
  BY <1>5, SequenceIs
<1>8. Distinct(w)
  BY <1>7 DEF Distinct
<1>9. \A q \in Import : Working(q)' => Working(q) /\ imp'[q] = imp[q]
  BY <1>1 DEF Working
<1>10. ASSUME NEW q \in Import, Working(q) PROVE ~Has(imp[q].rows, v.series, n)
  <2>1. JobOK(q, imp[q])
    BY <1>10, JobIs DEF Working
  <2>2. CASE imp[q].at \in {"count", "seed"}
    <3>1. imp[q].rows = << >>
      BY <2>1, <2>2 DEF JobOK
    <3> QED
      BY <3>1, NothingHas
  <2>3. CASE imp[q].at \notin {"count", "seed"}
    <3>1. Open(q)
      BY <1>10, <2>3 DEF Open, Working, InTx
    <3> QED
      BY <1>1, <3>1 DEF Range, Has
  <2> QED
    BY <2>2, <2>3
<1>11. \A k \in DOMAIN w :
         LET s == w[k].series
             m == w[k].number
         IN  /\ ~Has(ledger, s, m)
             /\ m > 1 => Has(ledger, s, m - 1) \/ Has(w, s, m - 1)
             /\ \A q \in Import : Working(q)' => ~Has(imp[q].rows, s, m)
  <2> SUFFICES ASSUME NEW k \in DOMAIN w
               PROVE  /\ ~Has(ledger, w[k].series, w[k].number)
                      /\ w[k].number > 1 => Has(ledger, w[k].series, w[k].number - 1)
                      /\ \A q \in Import : Working(q)' => ~Has(imp[q].rows, w[k].series, w[k].number)
    OBVIOUS
  <2>1. w[k].series = v.series /\ w[k].number = n
    BY <1>4, <1>5, <1>7
  <2> QED
    BY <1>3, <1>9, <1>10, <2>1
<1> QED
  BY <1>2, <1>5, <1>6, <1>8, <1>9, <1>11, NumbersGrow

LEMMA NumbersStep ==
  ASSUME NumbersInv, ImportsInv, [SieNext]_sieVars
  PROVE  NumbersInv'
<1>0. DOMAIN imp = Import
  BY DEF ImportsInv
<1>1. CASE UNCHANGED <<ledger, imp>>
  <2>1. ledger' = ledger /\ imp' = imp
    BY <1>1
  <2> QED
    BY <2>1 DEF NumbersInv, RowsNumbered, Sees, Working
<1>2. ASSUME NEW r \in Import, NEW f \in Foreign \cup Range(file), handleSIEImport(r, f)
      PROVE  NumbersInv'
  <2>1. PICK c : c = [at |-> "count", file |-> f, todo |-> ImportVouchers(f), rows |-> << >>, number |-> 0]
    OBVIOUS
  <2>2. goto(r, c) /\ UNCHANGED ledger /\ c.at = "count" /\ c.rows = << >>
    BY <1>2, <2>1 DEF handleSIEImport
  <2> QED
    BY <1>0, <2>2, NumbersMove
<1>3. ASSUME NEW r \in Import, rollback(r), UNCHANGED ledger PROVE NumbersInv'
  BY <1>0, <1>3, NumbersRollback
<1>4. ASSUME NEW r \in Import, Working(r), NEW at \in {"seed", "number", "commit"}, UNCHANGED ledger,
             goto(r, [imp[r] EXCEPT !.at = at])
      PROVE  NumbersInv'
  <2>1. PICK c : c = [imp[r] EXCEPT !.at = at]
    OBVIOUS
  <2>2. Moved(imp[r], c, at, imp[r].number)
    BY <1>4, <2>1, JobIs, JobMoved DEF Working
  <2>3. c.rows = imp[r].rows /\ Ready(c, ledger)
    BY <2>2 DEF Moved, Ready
  <2> QED
    BY <1>0, <1>4, <2>1, <2>3, NumbersMove
<1>5. ASSUME NEW r \in Import, CountVerifications(r) PROVE NumbersInv'
  BY <1>3, <1>4, <1>5 DEF CountVerifications, Working
<1>6. ASSUME NEW r \in Import, UpsertAccount(r) PROVE NumbersInv'
  BY <1>4, <1>6 DEF UpsertAccount, Working, InTx
<1>7. ASSUME NEW r \in Import, logAudit(r) PROVE NumbersInv'
  BY <1>4, <1>7 DEF logAudit, Working, InTx
<1>8. ASSUME NEW r \in Import, NextVerificationNumber(r) PROVE NumbersInv'
  <2> DEFINE s == Head(imp[r].todo).series
             t == ledger \o imp[r].rows
             n == NextNumber(t, s)
             c == [imp[r] EXCEPT !.at = "insert", !.number = n]
  <2>1. imp[r].at = "number" /\ UNCHANGED ledger /\ (rollback(r) \/ goto(r, c))
    BY <1>8 DEF NextVerificationNumber
  <2>2. Working(r)
    BY <2>1 DEF Working, InTx
  <2>3. /\ Sequence(t) /\ \A k \in DOMAIN t : t[k].number \in Nat
        /\ \A a, b : Has(t, a, b) <=> Has(ledger, a, b) \/ Has(imp[r].rows, a, b)
    BY <2>2, OwnNumbersAre DEF Working
  <2> HIDE DEF t, s
  <2>4. n \in Nat /\ ~Has(t, s, n) /\ (n > 1 => Has(t, s, n - 1))
    BY <2>3, NextNumberIs
  <2>5. Moved(imp[r], c, "insert", n)
    BY <2>2, JobIs, JobMoved DEF Working
  <2> HIDE DEF n, c
  <2>6. c.rows = imp[r].rows /\ Head(c.todo).series = s /\ c.number = n
    BY <2>5 DEF Moved, s
  <2>7. Ready(c, ledger)
    BY <2>3, <2>4, <2>6 DEF Ready
  <2>8. CASE goto(r, c)
    BY <1>0, <2>1, <2>2, <2>6, <2>7, <2>8, NumbersMove
  <2> QED
    BY <1>3, <2>1, <2>8
<1>9. ASSUME NEW r \in Import, InsertVerification(r) PROVE NumbersInv'
  <2>1. /\ imp[r].at = "insert" /\ Blockers(r) = {} /\ UNCHANGED ledger
        /\ \/ rollback(r)
           \/ ~Taken(Head(imp[r].todo).series, imp[r].number) /\ goto(r, inserted(r))
    BY <1>9 DEF InsertVerification
  <2> QED
    BY <1>3, <2>1, NumbersInsert
<1>10. ASSUME NEW r \in Import, Fails(r) \/ DeadlockDetected(r) PROVE NumbersInv'
  BY <1>3, <1>10 DEF Fails, DeadlockDetected
<1>11. CASE \E r \in Import : ImportSIE(r) \/ Fails(r) \/ DeadlockDetected(r)
  BY <1>5, <1>6, <1>7, <1>8, <1>9, <1>10, <1>11, NumbersCommit DEF ImportSIE
<1>12. CASE \E v \in OwnPosts : PostByHand(v)
  BY <1>12, NumbersHand
<1>13. CASE \E v \in Vouchers : PostVoucher(v)
  BY <1>1, <1>13 DEF PostVoucher
<1>14. CASE ExportSIE \/ readOpening \/ readClosing \/ Write
  BY <1>1, <1>14 DEF ExportSIE, readOpening, readClosing, Write
<1> QED
  BY <1>1, <1>2, <1>11, <1>12, <1>13, <1>14 DEF SieNext, sieVars

\* A finite set of numbers from 1 with no gap is 1 .. n.
LEMMA NoGap ==
  ASSUME NEW S, IsFiniteSet(S), S # {}, S \subseteq Nat \ {0}, \A n \in S : n > 1 => n - 1 \in S
  PROVE  S = 1 .. Cardinality(S)
<1>1. PICK m \in S : \A y \in S : y <= m
  BY MaxIs
<1>2. m \in Nat /\ m >= 1 /\ S \subseteq 1 .. m
  BY <1>1
<1>3. ASSUME NEW j \in 1 .. m PROVE j \in S
  <2> DEFINE T == {i \in Nat : i < m /\ m - i \notin S}
  <2>1. T = {}
    <3> SUFFICES ASSUME T # {} PROVE FALSE
      OBVIOUS
    <3>1. T \in SUBSET Nat
      OBVIOUS
    <3> HIDE DEF T
    <3>2. PICK d \in T : \A i \in T : d <= i
      BY <3>1, LeastNat
    <3>3. d \in Nat /\ d < m /\ m - d \notin S
      BY <3>2 DEF T
    <3>4. d # 0
      BY <1>1, <1>2, <3>3
    <3>5. d - 1 \in Nat /\ d - 1 < m /\ ~(d <= d - 1)
      BY <1>2, <3>3, <3>4
    <3>6. d - 1 \notin T
      BY <3>2, <3>5
    <3>7. m - (d - 1) \in S
      BY <3>5, <3>6 DEF T
    <3>8. m - (d - 1) > 1 /\ m - (d - 1) - 1 = m - d
      BY <1>2, <3>3
    <3>9. m - d \in S
      BY <3>7, <3>8
    <3> QED
      BY <3>3, <3>9
  <2>2. m - j \in Nat /\ m - j < m /\ m - (m - j) = j
    BY <1>2
  <2> QED
    BY <2>1, <2>2
<1>4. S = 1 .. m
  BY <1>2, <1>3
<1>5. Cardinality(1 .. m) = m
  <2>1. Cardinality(1 .. m) = IF 1 > m THEN 0 ELSE m - 1 + 1
    BY <1>2, FS_Interval
  <2> QED
    BY <1>2, <2>1
<1> QED
  BY <1>4, <1>5

LEMMA InvGapless ==
  ASSUME ImportsInv, NumbersInv
  PROVE  NumbersGapless
<1> SUFFICES ASSUME NEW s \in {ledger[k].series : k \in DOMAIN ledger}
             PROVE  LET K == {k \in DOMAIN ledger : ledger[k].series = s}
                    IN  {ledger[k].number : k \in K} = 1 .. Cardinality(K)
  BY DEF NumbersGapless
<1> DEFINE K == {k \in DOMAIN ledger : ledger[k].series = s}
           N == {ledger[k].number : k \in K}
           h == [k \in K |-> ledger[k].number]
<1>1. Sequence(ledger) /\ DOMAIN ledger = 1 .. Len(ledger) /\ Len(ledger) \in Nat
  BY SequenceIs DEF ImportsInv, LedgerOK
<1>2. IsFiniteSet(K)
  <2>1. IsFiniteSet(1 .. Len(ledger))
    BY <1>1, FS_Interval
  <2>2. K \in SUBSET (1 .. Len(ledger))
    BY <1>1
  <2> HIDE DEF K
  <2> QED
    BY <2>1, <2>2, FS_Subset
<1>3. \A k \in K : ledger[k].number \in Nat /\ ledger[k].number >= 1
  BY <1>1 DEF ImportsInv, LedgerOK
<1>4. \A k, l \in K : ledger[k].number = ledger[l].number => k = l
  BY DEF NumbersInv, Distinct
<1>5. h \in Surjection(K, N) /\ h \in Injection(K, N)
  BY <1>4 DEF Injection, Surjection, IsInjective
<1>6. IsFiniteSet(N) /\ Cardinality(N) = Cardinality(K)
  <2> HIDE DEF K, N, h
  <2> QED
    BY <1>2, <1>5, FS_Surjection
<1>7. N # {} /\ N \subseteq Nat \ {0}
  BY <1>3
<1>8. ASSUME NEW n \in N, n > 1 PROVE n - 1 \in N
  <2>1. PICK k \in K : n = ledger[k].number
    OBVIOUS
  <2>2. Has(ledger, s, n - 1)
    BY <1>8, <2>1 DEF NumbersInv
  <2> QED
    BY <2>2 DEF Has
<1> HIDE DEF K, N
<1>9. N = 1 .. Cardinality(N)
  BY <1>6, <1>7, <1>8, NoGap
<1> QED
  BY <1>6, <1>9 DEF N, K

LEMMA InvAllOrNothing ==
  ASSUME ImportsInv
  PROVE  AllOrNothing
<1> SUFFICES ASSUME NEW r \in Import
             PROVE  Cardinality(By(r)) = IF Done(r) THEN Len(ImportVouchers(imp[r].file)) ELSE 0
  BY DEF AllOrNothing
<1>1. DOMAIN ledger = 1 .. Len(ledger) /\ Len(ledger) \in Nat
  BY SequenceIs DEF ImportsInv, LedgerOK
<1>2. CASE ~Done(r)
  <2>1. By(r) = {}
    BY <1>1, <1>2 DEF By, ImportsInv, LedgerOK
  <2> QED
    BY <1>2, <2>1, FS_EmptySet
<1>3. CASE Done(r)
  <2> DEFINE iv == ImportVouchers(imp[r].file)
  <2>1. DoneOK(r, imp[r], ledger) /\ imp[r].at = "done"
    BY <1>3 DEF ImportsInv, Done
  <2>2. FileOK(imp[r].file)
    BY <2>1 DEF DoneOK
  <2>3. PICK p \in Nat : p = Len(iv)
    BY <2>2, ImportVouchersAre, SequenceIs
  <2>4. PICK n \in Nat : /\ n + Len(iv) <= Len(ledger)
                         /\ \A k \in 1 .. Len(ledger) : ledger[k].by = r <=> k \in n + 1 .. n + Len(iv)
    BY <2>1 DEF DoneOK
  <2> HIDE DEF iv
  <2>5. PICK l \in Nat : l = Len(ledger)
    BY <1>1
  <2>6. n + p <= l /\ \A k \in 1 .. l : ledger[k].by = r <=> k \in n + 1 .. n + p
    BY <2>3, <2>4, <2>5, Zenon
  <2>7. By(r) = {k \in 1 .. l : ledger[k].by = r}
    BY <1>1, <2>5, Zenon DEF By
  <2>8. {k \in 1 .. l : ledger[k].by = r} = n + 1 .. n + p
    BY <2>6
  <2>9. Cardinality(n + 1 .. n + p) = p
    <3>1. Cardinality(n + 1 .. n + p) = IF n + 1 > n + p THEN 0 ELSE (n + p) - (n + 1) + 1
      BY FS_Interval
    <3> QED
      BY <3>1
  <2> QED
    BY <1>3, <2>3, <2>7, <2>8, <2>9, Zenon DEF iv
<1> QED
  BY <1>2, <1>3

-----------------------------------------------------------------------------
(* The text of a file                                                      *)

LEMMA DigitsAre ==
  ASSUME NEW x \in Int
  PROVE  (x \div 100) * 100 + 10 * ((x % 100) \div 10) + (x % 10) = x
<1>1. PICK q, r \in Int : q = x \div 100 /\ r = x % 100 /\ x = 100 * q + r /\ 0 <= r /\ r < 100
  OBVIOUS
<1>2. PICK d, e \in Int : d = r \div 10 /\ e = r % 10 /\ r = 10 * d + e /\ 0 <= e /\ e < 10
  BY <1>1
<1>3. x % 10 = e
  BY <1>1, <1>2
<1> QED
  BY <1>1, <1>2, <1>3

\* An amount is read as it was written, the smallest one included.
LEMMA AmountSurvives ==
  ASSUME NEW n \in Amount
  PROVE  parseAmount(amount(n)) = n
<1>1. PICK x \in Int : x = Abs(n) /\ x = (IF n < 0 THEN Wrap(-n) ELSE n) /\ x \in Amount
  <2>1. n \in Int /\ -n \in Int
    BY AccountingAssumption DEF Amount
  <2>2. Wrap(-n) \in Amount /\ \A m \in Amount : m \in Int
    BY <2>1, WrapType, AccountingAssumption DEF Amount
  <2> QED
    BY <2>1, <2>2 DEF Abs
<1>2. PICK k, d, e \in Int : k = x \div 100 /\ d = (x % 100) \div 10 /\ e = x % 10 /\ k * 100 + 10 * d + e = x
  <2>1. x \div 100 \in Int /\ (x % 100) \div 10 \in Int /\ x % 10 \in Int
    OBVIOUS
  <2> QED
    BY <2>1, DigitsAre
<1>3. amount(n) = [neg |-> n < 0, kr |-> k, frac |-> <<d, e>>]
  BY <1>1, <1>2 DEF amount
<1>4. (<<d, e>> \o <<0, 0>>)[1] = d /\ (<<d, e>> \o <<0, 0>>)[2] = e
  OBVIOUS
<1>5. parseAmount(amount(n)) = IF n < 0 THEN Wrap(-Wrap(x)) ELSE Wrap(x)
  <2>1. PICK t : t = amount(n) /\ t.neg = (n < 0) /\ t.kr = k /\ t.frac = <<d, e>>
    BY <1>3
  <2>2. PICK z : z = t.frac \o <<0, 0>> /\ z[1] = d /\ z[2] = e
    BY <1>4, <2>1
  <2>3. parseAmount(t) = IF t.neg THEN Wrap(-Wrap(t.kr * 100 + 10 * z[1] + z[2])) ELSE Wrap(t.kr * 100 + 10 * z[1] + z[2])
    BY <2>2, Zenon DEF parseAmount
  <2>4. parseAmount(t) = IF n < 0 THEN Wrap(-Wrap(k * 100 + 10 * d + e)) ELSE Wrap(k * 100 + 10 * d + e)
    BY <2>1, <2>2, <2>3, Zenon
  <2> QED
    BY <1>2, <2>1, <2>4, Zenon
<1>6. Wrap(x) = x
  BY <1>1, WrapId
<1>7. CASE n >= 0
  <2>1. ~(n < 0) /\ x = n
    BY <1>1, <1>7, AccountingAssumption DEF Amount
  <2> QED
    BY <1>5, <1>6, <2>1
<1>8. CASE n < 0
  <2>1. PICK M \in Nat : M = MaxAmount /\ n \in Int /\ n >= -M - 1 /\ n < 0 /\ x = Wrap(-n)
    BY <1>1, <1>8, AccountingAssumption DEF Amount
  <2>2. CASE n = -M - 1
    <3>1. n + 1 * (2 * (MaxAmount + 1)) = -n
      BY <2>1, <2>2
    <3>2. Wrap(n + 1 * (2 * (MaxAmount + 1))) = n
      BY WrapPeriod
    <3>3. Wrap(-n) = n
      BY <3>1, <3>2
    <3> QED
      BY <1>5, <1>6, <1>8, <2>1, <3>3
  <2>3. CASE n > -M - 1
    <3>1. -n \in Amount /\ -(-n) = n
      BY <2>1, <2>3 DEF Amount
    <3>2. x = -n
      BY <2>1, <3>1, WrapId
    <3>3. Wrap(-x) = n
      BY <3>1, <3>2, WrapId
    <3> QED
      BY <1>5, <1>6, <1>8, <3>3
  <2> QED
    BY <2>1, <2>2, <2>3
<1> QED
  BY <1>7, <1>8, AccountingAssumption DEF Amount

\* So is a line of a voucher, through one signed amount.
LEMMA LineSurvives ==
  ASSUME NEW l \in Line, WellFormed(l)
  PROVE  lineOf(l.account, parseAmount(amount(Wrap(l.debit - l.credit)))) = l
<1>1. PICK M, d, c \in Nat : M = MaxAmount /\ d = l.debit /\ c = l.credit /\ d <= M /\ c <= M /\ (d = 0) # (c = 0)
  BY AccountingAssumption DEF Line, WellFormed, Amount
<1>2. PICK n \in Int : n = l.debit - l.credit /\ n = d - c /\ n \in Amount /\ -n \in Amount
  BY <1>1 DEF Amount
<1>3. Wrap(l.debit - l.credit) = n /\ Wrap(-n) = -n
  BY <1>2, WrapId
<1>4. parseAmount(amount(Wrap(l.debit - l.credit))) = n
  BY <1>2, <1>3, AmountSurvives
<1>5. l = [account |-> l.account, debit |-> d, credit |-> c]
  BY <1>1 DEF Line
<1>6. CASE c = 0
  <2>1. n >= 0 /\ n = d
    BY <1>1, <1>2, <1>6
  <2> QED
    BY <1>4, <1>5, <1>6, <2>1 DEF lineOf, Debit
<1>7. CASE d = 0
  <2>1. ~(n >= 0) /\ -n = c
    BY <1>1, <1>2, <1>7
  <2> QED
    BY <1>3, <1>4, <1>5, <1>7, <2>1 DEF lineOf, Credit
<1> QED
  BY <1>1, <1>6, <1>7

\* A voucher of the exporting company.
Posted(w) ==
  /\ w.date \in Nat /\ w.number \in Nat /\ w.lines \in Seq(Line) /\ Validate(w.lines)
  /\ w.series \in Seq(STRING) /\ \A i \in 1 .. Len(w.series) : w.series[i] # ""

LEMMA FieldIs == \A k, x : Field(k, x).kind = k /\ Field(k, x).val = x
  BY DEF Field

LEMMA SomeWord ==
  ASSUME NEW X, NEW s \in Seq(X), s # << >>
  PROVE  Len(s) >= 1
  BY SequenceIs, SequenceNone

LEMMA OneWord ==
  ASSUME NEW s \in Seq(STRING), Len(s) = 1
  PROVE  s = <<s[1]>>
<1>1. s = [i \in 1 .. 1 |-> s[i]]
  OBVIOUS
<1>2. PICK x : x = s[1]
  OBVIOUS
<1>3. [i \in 1 .. 1 |-> s[i]] = [i \in 1 .. 1 |-> x]
  BY <1>2
<1>4. <<x>> = [i \in 1 .. 1 |-> x]
  OBVIOUS
<1> QED
  BY <1>1, <1>2, <1>3, <1>4, Zenon

\* The fields of its #VER line.
LEMMA HeadIs ==
  ASSUME NEW w, Posted(w)
  PROVE  LET h == verRecord(w).head
         IN  /\ 1 \in DOMAIN h /\ 3 \in DOMAIN h
             /\ h[3].kind = "date" => h[3].val \in Nat
             /\ Len(w.series) = 1 =>
                  /\ h[1] = Field("word", w.series[1]) /\ w.series[1] # "" /\ w.series = <<w.series[1]>>
                  /\ h[3] = Field("date", w.date)
<1>1. PICK s : s = w.series /\ s \in Seq(STRING)
  BY DEF Posted
<1>2. PICK m \in Nat : m = Len(s) /\ DOMAIN s = 1 .. m /\ \A i \in 1 .. m : s[i] # ""
  <2>1. Len(s) \in Nat /\ DOMAIN s = 1 .. Len(s)
    BY <1>1
  <2>2. \A i \in 1 .. Len(s) : s[i] # ""
    BY <1>1, Zenon DEF Posted
  <2> QED
    BY <2>1, <2>2
<1>3. PICK t : t = verSeries(s)
  OBVIOUS
<1>4. /\ Sequence(t) /\ DOMAIN t = 1 .. Len(t) /\ Len(t) \in Nat /\ Len(t) >= 1
      /\ \A i \in 1 .. Len(t) : t[i].kind = "word"
      /\ m = 1 => Len(t) = 1 /\ t[1] = Field("word", s[1])
  <2>1. CASE s = << >>
    <3>1. t = <<Field("word", "")>>
      BY <1>3, <2>1 DEF verSeries
    <3>2. m = 0
      BY <1>2, <2>1, SequenceEmpty
    <3>3. Sequence(t) /\ Len(t) = 1 /\ t[1] = Field("word", "")
      BY <3>1, SequenceOne
    <3>4. DOMAIN t = 1 .. Len(t) /\ t[1].kind = "word"
      BY <3>3, SequenceIs, FieldIs, Zenon
    <3>5. \A i \in 1 .. Len(t) : t[i].kind = "word"
      <4>1. \A i \in 1 .. Len(t) : i = 1
        <5>1. Len(t) = 1
          BY <3>3, Zenon
        <5> QED
          BY <5>1
      <4> QED
        BY <3>4, <4>1, Zenon
    <3>6. Len(t) \in Nat /\ Len(t) >= 1 /\ m # 1
      <4>1. Len(t) = 1
        BY <3>3, Zenon
      <4> QED
        BY <3>2, <4>1
    <3> QED
      BY <3>3, <3>4, <3>5, <3>6, Zenon
  <2>2. CASE s # << >>
    <3>1. t = [i \in 1 .. m |-> Field("word", s[i])]
      BY <1>2, <1>3, <2>2, Zenon DEF verSeries
    <3>2. m >= 1
      BY <1>1, <1>2, <2>2, SomeWord
    <3>3. t = [i \in 1 .. m |-> t[i]] /\ \A i \in 1 .. m : t[i] = Field("word", s[i])
      BY <3>1
    <3>4. Sequence(t) /\ Len(t) = m
      BY <3>3, SequenceMade
    <3> QED
      BY <3>2, <3>3, <3>4, SequenceIs DEF Field
  <2> QED
    BY <2>1, <2>2
<1>5. PICK u : u = <<Field("number", w.number), Field("date", w.date)>>
  OBVIOUS
<1>6. Sequence(u) /\ Len(u) = 2 /\ u[1] = Field("number", w.number) /\ u[2] = Field("date", w.date)
  <2>1. PICK a, b : a = Field("number", w.number) /\ b = Field("date", w.date)
    OBVIOUS
  <2>2. u = <<a, b>>
    BY <1>5, <2>1, Zenon
  <2>3. u \in Seq({a, b}) /\ Len(u) = 2 /\ u[1] = a /\ u[2] = b
    BY <2>2
  <2>4. Sequence(u)
    BY <2>3, SequenceIs
  <2> QED
    BY <2>1, <2>3, <2>4
<1>7. PICK h : h = t \o u
  OBVIOUS
<1>8. verRecord(w).head = h
  BY <1>1, <1>3, <1>5, <1>7 DEF verRecord
<1>9. PICK k \in Nat : k = Len(t) /\ k >= 1
  BY <1>4
<1>10. /\ DOMAIN h = 1 .. k + 2 /\ \A i \in 1 .. k : h[i] = t[i]
       /\ h[k + 1] = u[1] /\ h[k + 2] = u[2]
  <2>1. /\ Sequence(h) /\ Len(h) = Len(t) + Len(u)
        /\ \A i \in 1 .. Len(t) : h[i] = t[i]
        /\ \A i \in 1 .. Len(u) : h[Len(t) + i] = u[i]
    <3>1. Sequence(t) /\ Sequence(u)
      BY <1>4, <1>6, Zenon
    <3>2. /\ Sequence(t \o u) /\ Len(t \o u) = Len(t) + Len(u)
          /\ \A i \in 1 .. Len(t) : (t \o u)[i] = t[i]
          /\ \A i \in 1 .. Len(u) : (t \o u)[Len(t) + i] = u[i]
      BY <3>1, SequenceConcat
    <3> QED
      BY <1>7, <3>2, Zenon
  <2>2. Len(h) = k + 2
    BY <1>6, <1>9, <2>1
  <2>3. DOMAIN h = 1 .. k + 2
    BY <2>1, <2>2, SequenceIs
  <2>4. 1 \in 1 .. Len(u) /\ 2 \in 1 .. Len(u)
    BY <1>6
  <2>5. h[k + 1] = u[1] /\ h[k + 2] = u[2]
    BY <1>9, <2>1, <2>4
  <2> QED
    BY <1>9, <2>1, <2>3, <2>5
<1>11. 1 \in DOMAIN h /\ 3 \in DOMAIN h
  BY <1>9, <1>10
<1>12. h[3].kind = "date" => h[3].val \in Nat
  <2>1. CASE k = 1
    <3>1. h[3] = Field("date", w.date)
      BY <1>6, <1>10, <2>1
    <3>2. Field("date", w.date).val = w.date
      BY FieldIs, Zenon
    <3>3. w.date \in Nat
      BY Zenon DEF Posted
    <3> QED
      BY <3>1, <3>2, <3>3
  <2>2. CASE k = 2
    <3>1. h[3].kind = "number"
      BY <1>6, <1>10, <2>2, FieldIs
    <3> QED
      BY <3>1
  <2>3. CASE k >= 3
    <3>1. h[3].kind = "word"
      BY <1>4, <1>9, <1>10, <2>3
    <3> QED
      BY <3>1
  <2> QED
    BY <1>9, <2>1, <2>2, <2>3
<1>13. ASSUME m = 1
       PROVE  h[1] = Field("word", s[1]) /\ s[1] # "" /\ s = <<s[1]>> /\ h[3] = Field("date", w.date)
  <2>1. k = 1 /\ t[1] = Field("word", s[1])
    BY <1>4, <1>9, <1>13
  <2>2. h[1] = t[1] /\ h[3] = u[2]
    BY <1>10, <2>1
  <2>3. s[1] # "" /\ s = <<s[1]>>
    <3>1. s = <<s[1]>>
      <4>1. Len(s) = 1 /\ s \in Seq(STRING)
        BY <1>1, <1>2, <1>13, Zenon
      <4> QED
        BY <4>1, OneWord, Zenon
    <3>2. s[1] # ""
      <4>1. 1 \in 1 .. m
        BY <1>13
      <4> QED
        BY <1>2, <4>1, Zenon
    <3> QED
      BY <3>1, <3>2, Zenon
  <2> QED
    BY <1>6, <2>1, <2>2, <2>3
<1> QED
  BY <1>1, <1>2, <1>8, <1>11, <1>12, <1>13, Zenon

\* What an import makes of a #VER block is the voucher it was written from.
LEMMA VoucherSurvives ==
  ASSUME NEW w, Posted(w), NEW f
  PROVE  LET u == voucher(f, verRecord(w))
         IN  /\ u.lines = w.lines
             /\ Len(w.series) = 1 => u.series = w.series /\ u.date = w.date
<1>1. PICK ls : ls = w.lines /\ ls \in Seq(Line)
  BY DEF Posted
<1>2. DOMAIN ls = 1 .. Len(ls) /\ Len(ls) \in Nat
  BY <1>1
<1>3. \A i \in 1 .. Len(ls) : ls[i] \in Line /\ WellFormed(ls[i])
  <2>1. \A i \in 1 .. Len(ls) : ls[i] \in Line
    BY <1>1, <1>2
  <2>2. \A i \in 1 .. Len(ls) : WellFormed(ls[i])
    BY <1>1, Zenon DEF Posted, Validate
  <2> QED
    BY <2>1, <2>2
<1>4. voucher(f, verRecord(w)).lines
        = [i \in 1 .. Len(ls) |-> lineOf(ls[i].account, parseAmount(amount(Wrap(ls[i].debit - ls[i].credit))))]
  BY <1>1, <1>2 DEF voucher, verRecord
<1>5. \A i \in 1 .. Len(ls) :
        lineOf(ls[i].account, parseAmount(amount(Wrap(ls[i].debit - ls[i].credit)))) = ls[i]
  BY <1>3, LineSurvives
<1>6. voucher(f, verRecord(w)).lines = [i \in 1 .. Len(ls) |-> ls[i]]
  BY <1>4, <1>5
<1>7. ls = [i \in 1 .. Len(ls) |-> ls[i]]
  BY <1>1
<1>8. ASSUME Len(w.series) = 1
      PROVE  voucher(f, verRecord(w)).series = w.series /\ voucher(f, verRecord(w)).date = w.date
  <2>1. PICK h : h = verRecord(w).head
    OBVIOUS
  <2>2. /\ h[1] = Field("word", w.series[1]) /\ w.series[1] # "" /\ w.series = <<w.series[1]>>
        /\ h[3] = Field("date", w.date)
    BY <1>8, <2>1, HeadIs
  <2>3. h[1].val = w.series[1] /\ h[3].kind = "date" /\ h[3].val = w.date
    <3>1. PICK x, y : x = Field("word", w.series[1]) /\ y = Field("date", w.date)
      OBVIOUS
    <3>2. x.val = w.series[1] /\ y.kind = "date" /\ y.val = w.date
      BY <3>1, FieldIs
    <3> QED
      BY <2>2, <3>1, <3>2, Zenon
  <2> QED
    BY <2>1, <2>2, <2>3 DEF voucher, parseYMD
<1> QED
  BY <1>1, <1>6, <1>7, <1>8

\* A sum in another order: p names the terms again, one by one.
LEMMA SumReindexed ==
  ASSUME NEW S, IsFiniteSet(S), NEW f, \A x \in S : f[x] \in Int,
         NEW R, NEW p \in Bijection(S, R), NEW g, \A x \in S : g[p[x]] = f[x]
  PROVE  IsFiniteSet(R) /\ SumFunctionOnSet(f, S) = SumFunctionOnSet(g, R)
<1> DEFINE Image(U) == {p[x] : x \in U}
           T == {U \in SUBSET S : SumFunctionOnSet(f, U) # SumFunctionOnSet(g, Image(U))}
<1>1. IsFiniteSet(R)
  <2>1. p \in Surjection(S, R)
    BY DEF Bijection
  <2> QED
    BY <2>1, FS_Surjection
<1>2. /\ \A x \in S : p[x] \in R
      /\ \A x, y \in S : p[x] = p[y] => x = y
      /\ Image(S) = R
  BY DEF Bijection, Injection, Surjection, IsInjective
<1>3. \A y \in R : g[y] \in Int
  BY <1>2
<1>4. T = {}
  <2> SUFFICES ASSUME T # {} PROVE FALSE
    OBVIOUS
  <2>1. PICK U \in T : \A V \in T : V \subseteq U => V = U
    <3> HIDE DEF T
    <3>1. T \in SUBSET (SUBSET S)
      BY DEF T
    <3> QED
      BY <3>1, LeastSubset
  <2>2. U \subseteq S /\ IsFiniteSet(U) /\ SumFunctionOnSet(f, U) # SumFunctionOnSet(g, Image(U))
    BY <2>1, FS_Subset
  <2>3. U # {}
    <3>1. Image({}) = {}
      OBVIOUS
    <3>2. SumFunctionOnSet(f, {}) = 0 /\ SumFunctionOnSet(g, {}) = 0
      BY SumOfNone
    <3> QED
      BY <2>2, <3>1, <3>2
  <2>4. PICK x \in U : TRUE
    BY <2>3
  <2>5. U \ {x} \subseteq S /\ U \ {x} \subseteq U /\ U \ {x} # U
    BY <2>2, <2>4
  <2>6. SumFunctionOnSet(f, U \ {x}) = SumFunctionOnSet(g, Image(U \ {x}))
    BY <2>1, <2>5
  <2>7. Image(U \ {x}) = Image(U) \ {p[x]} /\ p[x] \in Image(U) /\ Image(U) \subseteq R /\ x \in S
    BY <1>2, <2>2, <2>4
  <2>8. \A y \in U : f[y] \in Int
    BY <2>2
  <2>9. SumFunctionOnSet(f, U) = f[x] + SumFunctionOnSet(f, U \ {x})
    BY <2>2, <2>8, SumWithout
  <2>10. PICK I, i, J : I = Image(U) /\ i = p[x] /\ J = Image(U \ {x})
    OBVIOUS
  <2>11. J = I \ {i} /\ i \in I /\ I \in SUBSET R /\ SumFunctionOnSet(f, U \ {x}) = SumFunctionOnSet(g, J)
    BY <2>6, <2>7, <2>10, Zenon
  <2>12. IsFiniteSet(I) /\ \A y \in I : g[y] \in Int
    BY <1>1, <1>3, <2>11, FS_Subset
  <2>13. SumFunctionOnSet(g, I) = g[i] + SumFunctionOnSet(g, I \ {i})
    BY <2>11, <2>12, SumWithout
  <2>14. g[i] = f[x]
    BY <2>7, <2>10
  <2>15. SumFunctionOnSet(f, U) = SumFunctionOnSet(g, I)
    BY <2>9, <2>11, <2>13, <2>14, Zenon
  <2> QED
    BY <2>2, <2>10, <2>15, Zenon
<1>5. S \notin T
  BY <1>4
<1>6. SumFunctionOnSet(f, S) = SumFunctionOnSet(g, Image(S))
  BY <1>5
<1> QED
  BY <1>1, <1>2, <1>6, Zenon

\* So is the total of vouchers that are listed in another order.
LEMMA TotalReindexed ==
  ASSUME NEW ws, NEW L, IsFiniteSet(L), \A i \in L : ws[i].lines \in Seq(Line),
         NEW vs, NEW K, NEW p \in Bijection(L, K), \A i \in L : vs[p[i]].lines = ws[i].lines, NEW a
  PROVE  TotalOn(vs, K, a) = TotalOn(ws, L, a)
<1> DEFINE f == [i \in L |-> NetOn(ws[i].lines, a)]
           g == [k \in K |-> NetOn(vs[k].lines, a)]
<1>1. \A i \in L : f[i] \in Int /\ f[i] = NetOn(ws[i].lines, a)
  BY NetOnType
<1>2. \A i \in L : p[i] \in K
  BY DEF Bijection, Injection
<1>3. \A i \in L : g[p[i]] = f[i]
  BY <1>1, <1>2
<1>4. DOMAIN f = L /\ DOMAIN g = K
  OBVIOUS
<1>5. TotalOn(ws, L, a) = SumFunction(f) /\ TotalOn(vs, K, a) = SumFunction(g)
  BY DEF TotalOn
<1> HIDE DEF f, g
<1>6. SumFunctionOnSet(f, L) = SumFunctionOnSet(g, K)
  BY <1>1, <1>3, SumReindexed
<1> QED
  BY <1>4, <1>5, <1>6 DEF SumFunction

-----------------------------------------------------------------------------
(* What an export goes through                                             *)

JournalOK(vs) == Sequence(vs) /\ Len(vs) <= MaxPosted /\ \A k \in 1 .. Len(vs) : Posted(vs[k])

\* The vouchers of vs that count for the closing balances of year y.
Upto(vs, y) == {i \in DOMAIN vs : vs[i].date <= YearEnd(y)}

\* The export c listed the first n vouchers of vs, in the order p, and c.torn and
\* c.backdated tell of the later ones.
Lists(c, vs, n, p) ==
  /\ n \in 1 .. Len(vs) /\ p \in Bijection(1 .. n, 1 .. n)
  /\ c.vers = [i \in 1 .. n |-> vs[p[i]]]
  /\ \A k \in 1 .. Len(vs) : k > n =>
       /\ ~c.torn => vs[k].date > YearEnd(c.year)
       /\ ~c.backdated => vs[k].date >= YearStart(c.year)

\* What c has read of the journal vs.
HasRead(c, vs) ==
  /\ c.year \in Nat
  /\ \E n, p : Lists(c, vs, n, p)
  /\ \A i \in DOMAIN c.vers : c.vers[i].date >= YearStart(c.year)

\* And made of it: nothing to open with, and the closing balances of its vouchers.
Opens(c) == c.at # "opening" /\ ~c.backdated => DOMAIN c.ib = {}

Closes(c) ==
  c.at = "write" =>
    /\ \A a \in DOMAIN c.ub : c.ub[a] \in Amount
    /\ ~c.torn /\ DOMAIN c.ub # {} =>
         \A a : IsBalance(a) => BalanceOf(c.ub, a) = TotalOn(c.vers, Upto(c.vers, c.year), a)

ExportJob(c) ==
  /\ DOMAIN c = {"at", "vers", "year", "ib", "ub", "torn", "backdated"}
  /\ c.at \in {"opening", "closing", "write"}

ExportOK(c, vs) ==
  \/ c = NotStarted
  \/ ExportJob(c) /\ HasRead(c, vs) /\ Opens(c) /\ Closes(c)

\* The file is the text of vouchers that were posted.
FromVouchers(f) ==
  /\ FileOK(f) /\ Sequence(f.of)
  /\ \A i \in 1 .. Len(f.of) : Posted(f.of[i])
  /\ f.vers = [i \in 1 .. Len(f.of) |-> verRecord(f.of[i])]
  /\ ~f.backdated => DOMAIN f.ib = {}
  /\ ~f.torn /\ DOMAIN f.ub # {} =>
       \A a : IsBalance(a) =>
         BalanceOf([x \in DOMAIN f.ub |-> parseAmount(f.ub[x])], a) = TotalOn(f.of, Upto(f.of, f.year), a)

ExportInv ==
  /\ JournalOK(journal) /\ ExportOK(exp, journal)
  /\ Sequence(file) /\ Len(file) <= 1 /\ \A i \in 1 .. Len(file) : FromVouchers(file[i])

LEMMA NotStartedIs == NotStarted.at = "idle"
  BY DEF NotStarted

\* A voucher is posted while c is on its way.
LEMMA ReadGrows ==
  ASSUME NEW vs, JournalOK(vs), NEW w, Posted(w), NEW c, HasRead(c, vs), NEW d,
         d.year = c.year, d.vers = c.vers,
         ~d.torn => ~c.torn /\ ~(w.date <= YearEnd(c.year)),
         ~d.backdated => ~c.backdated /\ ~(w.date < YearStart(c.year))
  PROVE  HasRead(d, Append(vs, w))
<1>1. PICK n, p : Lists(c, vs, n, p)
  BY DEF HasRead
<1>2. PICK us : us = Append(vs, w)
  OBVIOUS
<1>3. PICK m \in Nat : m = Len(vs) /\ Sequence(vs)
  BY SequenceIs DEF JournalOK
<1>4. /\ Len(us) = m + 1 /\ us[m + 1] = w
      /\ \A k \in 1 .. m : us[k] = vs[k]
  BY <1>2, <1>3, SequenceAppend
<1>5. n \in 1 .. m /\ n \in 1 .. m + 1 /\ p \in Bijection(1 .. n, 1 .. n)
  BY <1>1, <1>3 DEF Lists
<1>6. \A i \in 1 .. n : p[i] \in 1 .. m
  BY <1>5 DEF Bijection, Injection
<1>7. [i \in 1 .. n |-> us[p[i]]] = [i \in 1 .. n |-> vs[p[i]]]
  BY <1>4, <1>6
<1>8. w.date \in Int /\ YearEnd(c.year) \in Int /\ YearStart(c.year) \in Int
  <2>1. w.date \in Nat /\ c.year \in Nat
    BY Zenon DEF Posted, HasRead
  <2> QED
    BY <2>1 DEF YearEnd, YearStart
<1>9. ASSUME NEW k \in 1 .. m + 1, k > n
      PROVE  /\ ~d.torn => us[k].date > YearEnd(d.year)
             /\ ~d.backdated => us[k].date >= YearStart(d.year)
  <2>1. CASE k = m + 1
    <3>1. us[k] = w
      BY <1>4, <2>1
    <3>2. ~d.torn => w.date > YearEnd(c.year)
      BY <1>8
    <3>3. ~d.backdated => w.date >= YearStart(c.year)
      BY <1>8
    <3> QED
      BY <3>1, <3>2, <3>3, Zenon
  <2>2. CASE k # m + 1
    <3>1. k \in 1 .. m
      BY <1>3, <2>2
    <3>2. us[k] = vs[k]
      BY <1>4, <3>1
    <3>3. /\ ~c.torn => vs[k].date > YearEnd(c.year)
          /\ ~c.backdated => vs[k].date >= YearStart(c.year)
      BY <1>1, <1>3, <1>9, <3>1, Zenon DEF Lists
    <3> QED
      BY <3>2, <3>3, Zenon
  <2> QED
    BY <2>1, <2>2
<1>10. Lists(d, us, n, p)
  <2>1. d.vers = [i \in 1 .. n |-> us[p[i]]]
    BY <1>1, <1>7, Zenon DEF Lists
  <2>2. n \in 1 .. Len(us)
    BY <1>4, <1>5
  <2>3. \A k \in 1 .. Len(us) : k > n =>
          /\ ~d.torn => us[k].date > YearEnd(d.year)
          /\ ~d.backdated => us[k].date >= YearStart(d.year)
    BY <1>4, <1>9, Zenon
  <2> QED
    BY <1>5, <2>1, <2>2, <2>3, Zenon DEF Lists
<1> QED
  BY <1>2, <1>10, Zenon DEF HasRead

LEMMA JournalGrows ==
  ASSUME ExportInv, NEW v \in Vouchers, PostVoucher(v)
  PROVE  ExportInv'
<1>1. JournalOK(journal) /\ Sequence(journal) /\ Len(journal) \in Nat /\ Len(journal) < MaxPosted
  BY SequenceIs DEF ExportInv, JournalOK, PostVoucher
<1>2. PICK n \in Nat : n = NextNumber(journal, v.series)
  <2>1. DOMAIN journal = 1 .. Len(journal)
    BY <1>1, SequenceIs
  <2>2. \A k \in DOMAIN journal : journal[k].number \in Nat
    BY <1>1, <2>1 DEF JournalOK, Posted
  <2> QED
    BY <1>1, <2>2, NextNumberIs
<1>3. PICK w : w = [series |-> v.series, number |-> n, date |-> v.date, text |-> v.text, lines |-> v.lines]
  OBVIOUS
<1>4. journal' = Append(journal, w)
  BY <1>2, <1>3 DEF PostVoucher
<1>5. w.series = v.series /\ w.number = n /\ w.date = v.date /\ w.lines = v.lines
  BY <1>3
<1>6. Posted(w)
  <2>1. v.date \in Nat /\ v.lines \in Seq(Line) /\ v.series \in Seq(STRING)
    BY SieAssumption
  <2>2. ASSUME NEW i \in 1 .. Len(v.series) PROVE v.series[i] # ""
    <3>1. i \in DOMAIN v.series
      BY <2>1, <2>2
    <3>2. v.series[i] \in Range(v.series)
      BY <3>1, Zenon DEF Range
    <3>3. "" \notin Range(v.series)
      BY SieAssumption
    <3> QED
      BY <3>2, <3>3, Zenon
  <2>3. Validate(v.lines)
    BY DEF PostVoucher
  <2> QED
    BY <1>5, <2>1, <2>2, <2>3, Zenon DEF Posted
<1>7. JournalOK(journal')
  <2>1. PICK m \in Nat : m = Len(journal) /\ m < MaxPosted
    BY <1>1
  <2>2. /\ Sequence(journal') /\ Len(journal') = m + 1 /\ journal'[m + 1] = w
        /\ \A k \in 1 .. m : journal'[k] = journal[k]
    BY <1>1, <1>4, <2>1, SequenceAppend
  <2>3. m + 1 <= MaxPosted
    <3>1. MaxPosted \in Nat
      BY SieAssumption, Zenon
    <3> QED
      BY <2>1, <3>1
  <2>4. ASSUME NEW k \in 1 .. m + 1 PROVE Posted(journal'[k])
    <3>1. CASE k = m + 1
      BY <1>6, <2>2, <3>1
    <3>2. CASE k # m + 1
      <4>1. k \in 1 .. m
        BY <2>1, <3>2
      <4> QED
        BY <1>1, <2>1, <2>2, <4>1 DEF JournalOK
    <3> QED
      BY <3>1, <3>2
  <2> QED
    BY <2>2, <2>3, <2>4 DEF JournalOK
<1>8. ExportOK(exp', journal')
  <2>1. CASE exp = NotStarted
    <3>1. exp' = exp
      <4>1. exp.at = "idle"
        BY <2>1, NotStartedIs, Zenon
      <4> QED
        BY <4>1, Zenon DEF PostVoucher
    <3>2. exp' = NotStarted
      BY <2>1, <3>1
    <3> QED
      BY <3>2 DEF ExportOK
  <2>2. CASE exp # NotStarted
    <3>1. ExportJob(exp) /\ HasRead(exp, journal) /\ Opens(exp) /\ Closes(exp)
      BY <2>2, Zenon DEF ExportInv, ExportOK
    <3>2. exp.at # "idle"
      BY <3>1 DEF ExportJob
    <3>3. exp' = [exp EXCEPT !.torn = @ \/ v.date <= YearEnd(exp.year),
                             !.backdated = @ \/ v.date < YearStart(exp.year)]
      BY <3>2, Zenon DEF PostVoucher
    <3>4. /\ DOMAIN exp' = DOMAIN exp /\ exp'.at = exp.at /\ exp'.vers = exp.vers /\ exp'.year = exp.year
          /\ exp'.ib = exp.ib /\ exp'.ub = exp.ub
          /\ exp'.torn = (exp.torn \/ v.date <= YearEnd(exp.year))
          /\ exp'.backdated = (exp.backdated \/ v.date < YearStart(exp.year))
      BY <3>1, <3>3 DEF ExportJob
    <3>5. /\ ~exp'.torn => ~exp.torn /\ ~(w.date <= YearEnd(exp.year))
          /\ ~exp'.backdated => ~exp.backdated /\ ~(w.date < YearStart(exp.year))
      BY <1>5, <3>4, Zenon
    <3>6. HasRead(exp', journal')
      BY <1>1, <1>4, <1>6, <3>1, <3>4, <3>5, ReadGrows
    <3>7. Opens(exp')
      BY <3>1, <3>4, <3>5, Zenon DEF Opens
    <3>8. Closes(exp')
      BY <3>1, <3>4, <3>5, Zenon DEF Closes
    <3>9. ExportJob(exp')
      BY <3>1, <3>4, Zenon DEF ExportJob
    <3> QED
      BY <3>6, <3>7, <3>8, <3>9, Zenon DEF ExportOK
  <2> QED
    BY <2>1, <2>2
<1>9. UNCHANGED file
  BY DEF PostVoucher
<1> QED
  BY <1>7, <1>8, <1>9, Zenon DEF ExportInv

LEMMA YearIs ==
  ASSUME NEW d \in Nat
  PROVE  YearOf(d) \in Nat /\ YearStart(YearOf(d)) <= d
<1>1. PICK q, r \in Int : q = d \div 10 /\ d = 10 * q + r /\ 0 <= r /\ r < 10
  <2>1. d \div 10 \in Int /\ d % 10 \in Int /\ d = 10 * (d \div 10) + (d % 10) /\ 0 <= d % 10 /\ d % 10 < 10
    OBVIOUS
  <2> QED
    BY <2>1
<1>2. q >= 0
  BY <1>1
<1> QED
  BY <1>1, <1>2 DEF YearOf, YearStart

\* The export lists the vouchers of the journal.
LEMMA ListKeeps ==
  ASSUME ExportInv, ExportSIE
  PROVE  ExportInv'
<1>1. PICK n \in Nat : n = Len(journal) /\ DOMAIN journal = 1 .. n /\ Sequence(journal) /\ journal # << >>
  BY SequenceIs DEF ExportInv, JournalOK, ExportSIE
<1>2. n >= 1 /\ \A k \in 1 .. n : Posted(journal[k])
  <2>1. n # 0
    BY <1>1, SequenceNone
  <2> QED
    BY <1>1, <2>1 DEF ExportInv, JournalOK
<1>3. PICK vers \in ListVerifications :
        exp' = [at |-> "opening", vers |-> vers, year |-> YearOf(vers[1].date),
                ib |-> << >>, ub |-> << >>, torn |-> FALSE, backdated |-> FALSE]
  BY DEF ExportSIE
<1>4. PICK p \in Bijection(DOMAIN journal, DOMAIN journal) : vers = Permuted(journal, p) /\ Ordered(vers)
  BY <1>3, Zenon DEF ListVerifications
<1>5. p \in Bijection(1 .. n, 1 .. n) /\ vers = [i \in 1 .. n |-> journal[p[i]]] /\ DOMAIN vers = 1 .. n
  BY <1>1, <1>4 DEF Permuted
<1>6. \A i \in 1 .. n : Posted(vers[i])
  <2>1. \A i \in 1 .. n : p[i] \in 1 .. n
    BY <1>5 DEF Bijection, Injection
  <2> QED
    BY <1>2, <1>5, <2>1
<1>7. \A i \in 1 .. n : vers[i].date \in Nat
  BY <1>6 DEF Posted
<1>8. PICK c : c = exp'
  OBVIOUS
<1>9. /\ DOMAIN c = {"at", "vers", "year", "ib", "ub", "torn", "backdated"}
      /\ c.at = "opening" /\ c.vers = vers /\ c.year = YearOf(vers[1].date)
  BY <1>3, <1>8
<1>10. HasRead(c, journal)
  <2>1. 1 \in 1 .. n
    BY <1>2
  <2>2. YearOf(vers[1].date) \in Nat /\ YearStart(YearOf(vers[1].date)) <= vers[1].date
    BY <1>7, <2>1, YearIs
  <2>3. ASSUME NEW i \in 1 .. n PROVE vers[i].date >= YearStart(c.year)
    <3>1. vers[1].date <= vers[i].date
      <4>1. CASE i = 1
        BY <1>7, <2>1, <4>1
      <4>2. CASE i # 1
        <5>1. 1 < i
          BY <4>2
        <5>2. vers[1].date < vers[i].date \/ vers[1].date = vers[i].date
          BY <1>4, <1>5, <2>1, <5>1, Zenon DEF Ordered
        <5> QED
          BY <1>7, <2>1, <5>2
      <4> QED
        BY <4>1, <4>2
    <3>2. PICK a, b, y \in Int : a = vers[1].date /\ b = vers[i].date /\ y = YearStart(c.year) /\ y <= a /\ a <= b
      BY <1>7, <1>9, <2>1, <2>2, <3>1 DEF YearStart
    <3> QED
      BY <3>2
  <2>4. Lists(c, journal, n, p)
    <3>1. n \in 1 .. Len(journal) /\ \A k \in 1 .. Len(journal) : ~(k > n)
      BY <1>1, <1>2
    <3> QED
      BY <1>5, <1>9, <3>1, Zenon DEF Lists
  <2>5. c.year \in Nat
    BY <1>9, <2>2, Zenon
  <2>6. \A i \in DOMAIN c.vers : c.vers[i].date >= YearStart(c.year)
    BY <1>5, <1>9, <2>3, Zenon
  <2> QED
    BY <2>4, <2>5, <2>6, Zenon DEF HasRead
<1>11. ExportJob(c) /\ Opens(c) /\ Closes(c)
  BY <1>9 DEF ExportJob, Opens, Closes
<1>12. ExportOK(exp', journal)
  BY <1>8, <1>10, <1>11, Zenon DEF ExportOK
<1>13. UNCHANGED <<journal, file>>
  BY DEF ExportSIE
<1> QED
  BY <1>12, <1>13 DEF ExportInv

\* Where an export stands in its file, it has read the journal.
LEMMA ExportIs ==
  ASSUME ExportInv, exp.at # "idle"
  PROVE  ExportJob(exp) /\ HasRead(exp, journal) /\ Opens(exp) /\ Closes(exp)
<1>1. exp # NotStarted
  BY NotStartedIs, Zenon
<1> QED
  BY <1>1, Zenon DEF ExportInv, ExportOK

\* Reading the balances leaves what was read before.
LEMMA ReadStays ==
  ASSUME NEW c, NEW d, NEW vs, HasRead(c, vs), d.year = c.year, d.vers = c.vers,
         d.torn = c.torn, d.backdated = c.backdated
  PROVE  HasRead(d, vs)
<1>1. PICK n, p : Lists(c, vs, n, p)
  BY Zenon DEF HasRead
<1>2. Lists(d, vs, n, p)
  BY <1>1, Zenon DEF Lists
<1> QED
  BY <1>2, Zenon DEF HasRead

\* The vouchers listed are those of the journal, one by one.
LEMMA ListedIs ==
  ASSUME NEW vs, JournalOK(vs), NEW c, NEW n, NEW p, Lists(c, vs, n, p)
  PROVE  /\ n \in Nat /\ DOMAIN c.vers = 1 .. n /\ DOMAIN vs = 1 .. Len(vs)
         /\ \A i \in 1 .. n : p[i] \in 1 .. n /\ p[i] \in 1 .. Len(vs) /\ c.vers[i] = vs[p[i]] /\ Posted(c.vers[i])
         /\ \A k \in 1 .. n : \E i \in 1 .. n : k = p[i]
         /\ \A i, j \in 1 .. n : p[i] = p[j] => i = j
<1>1. Sequence(vs) /\ DOMAIN vs = 1 .. Len(vs) /\ Len(vs) \in Nat /\ \A k \in 1 .. Len(vs) : Posted(vs[k])
  BY SequenceIs DEF JournalOK
<1>2. n \in 1 .. Len(vs) /\ p \in Bijection(1 .. n, 1 .. n) /\ c.vers = [i \in 1 .. n |-> vs[p[i]]]
  BY Zenon DEF Lists
<1>3. n \in Nat /\ \A k \in 1 .. n : k \in 1 .. Len(vs)
  BY <1>1, <1>2
<1>4. /\ \A i \in 1 .. n : p[i] \in 1 .. n
      /\ \A k \in 1 .. n : \E i \in 1 .. n : k = p[i]
      /\ \A i, j \in 1 .. n : p[i] = p[j] => i = j
  BY <1>2 DEF Bijection, Injection, Surjection, IsInjective
<1>5. DOMAIN c.vers = 1 .. n /\ \A i \in 1 .. n : c.vers[i] = vs[p[i]]
  BY <1>2
<1> QED
  BY <1>1, <1>3, <1>4, <1>5

LEMMA RowsNone ==
  ASSUME NEW tb, DOMAIN tb = {}, NEW rows \in Read(tb)
  PROVE  DOMAIN rows = {}
<1>1. DOMAIN Rows(tb, IsBalance) = {}
  BY DEF Rows
<1>2. rows = << >> \/ rows = Rows(tb, IsBalance)
  BY DEF Read
<1> QED
  BY <1>1, <1>2, SequenceEmpty, Zenon

LEMMA OpeningKeeps ==
  ASSUME ExportInv, readOpening
  PROVE  ExportInv'
<1>1. exp.at = "opening"
  BY DEF readOpening
<1>2. JournalOK(journal) /\ ExportJob(exp) /\ HasRead(exp, journal)
  BY <1>1, ExportIs DEF ExportInv
<1>3. PICK ib \in Read(BalancesAsOf(dayBefore(exp.year))) : exp' = [exp EXCEPT !.at = "closing", !.ib = ib]
  BY DEF readOpening
<1>4. PICK d : d = exp'
  OBVIOUS
<1>5. /\ DOMAIN d = {"at", "vers", "year", "ib", "ub", "torn", "backdated"}
      /\ d.at = "closing" /\ d.ib = ib /\ d.vers = exp.vers /\ d.year = exp.year
      /\ d.torn = exp.torn /\ d.backdated = exp.backdated
  BY <1>2, <1>3, <1>4 DEF ExportJob
<1>6. HasRead(d, journal)
  BY <1>2, <1>5, ReadStays
<1>7. ASSUME ~exp.backdated PROVE DOMAIN ib = {}
  <2>1. PICK n, p : Lists(exp, journal, n, p)
    BY <1>2, Zenon DEF HasRead
  <2>2. PICK y \in Nat : y = YearStart(exp.year) /\ dayBefore(exp.year) = y - 1
    <3>1. exp.year \in Nat
      BY <1>2, Zenon DEF HasRead
    <3> QED
      BY <3>1 DEF YearStart, dayBefore
  <2>3. DOMAIN journal = 1 .. Len(journal) /\ Len(journal) \in Nat /\ n \in Nat
    BY <1>2, <2>1, ListedIs, SequenceIs DEF JournalOK
  <2>4. ASSUME NEW k \in 1 .. Len(journal) PROVE journal[k].date >= y
    <3>1. CASE k > n
      BY <1>7, <2>1, <2>2, <3>1, Zenon DEF Lists
    <3>2. CASE ~(k > n)
      <4>1. k \in 1 .. n
        BY <2>3, <3>2
      <4>2. PICK i \in 1 .. n : k = p[i]
        BY <1>2, <2>1, <4>1, ListedIs
      <4>3. journal[k] = exp.vers[i] /\ i \in DOMAIN exp.vers
        BY <1>2, <2>1, <4>2, ListedIs
      <4> QED
        BY <1>2, <2>2, <4>3, Zenon DEF HasRead
    <3> QED
      BY <3>1, <3>2
  <2>5. \A k \in 1 .. Len(journal) : journal[k].date \in Nat
    BY <1>2 DEF JournalOK, Posted
  <2>6. {k \in DOMAIN journal : journal[k].date <= dayBefore(exp.year)} = {}
    BY <2>2, <2>3, <2>4, <2>5
  <2>7. PICK tb : tb = BalancesAsOf(dayBefore(exp.year))
    OBVIOUS
  <2>8. tb = BalancesOf(journal, {})
    BY <2>6, <2>7, Zenon DEF BalancesAsOf
  <2>9. DOMAIN tb = {}
    BY <2>8 DEF BalancesOf, AccountsIn
  <2> QED
    BY <1>3, <2>7, <2>9, RowsNone
<1>8. ExportJob(d) /\ Closes(d)
  BY <1>5 DEF ExportJob, Closes
<1>9. Opens(d)
  BY <1>5, <1>7, Zenon DEF Opens
<1>10. ExportOK(exp', journal)
  BY <1>4, <1>6, <1>8, <1>9, Zenon DEF ExportOK
<1>11. UNCHANGED <<journal, file>>
  BY DEF readOpening
<1> QED
  BY <1>10, <1>11 DEF ExportInv

\* The rows of a trial balance that are not zero say all of its balance accounts.
LEMMA RowsAre ==
  ASSUME NEW tb, SumsFit(tb), NEW a, IsBalance(a)
  PROVE  LET rows == Rows(tb, IsBalance)
         IN  /\ \A x \in DOMAIN rows : rows[x] \in Amount
             /\ BalanceOf(rows, a) = BalanceOf(tb, a)
<1>1. PICK D : D = {x \in DOMAIN tb : IsBalance(x) /\ tb[x] # 0}
  OBVIOUS
<1>2. PICK rows : rows = Rows(tb, IsBalance)
  OBVIOUS
<1>3. DOMAIN rows = D /\ \A x \in D : rows[x] = tb[x]
  BY <1>1, <1>2 DEF Rows
<1>4. \A x \in DOMAIN rows : rows[x] \in Amount
  BY <1>1, <1>3 DEF SumsFit
<1>5. BalanceOf(rows, a) = BalanceOf(tb, a)
  BY <1>1, <1>3 DEF BalanceOf
<1> QED
  BY <1>2, <1>4, <1>5, Zenon

\* The vouchers of the journal up to the end of the year are those listed, when none
\* came later.
LEMMA ListedTotals ==
  ASSUME NEW vs, JournalOK(vs), NEW c, HasRead(c, vs), ~c.torn, NEW a
  PROVE  TotalOn(vs, Upto(vs, c.year), a) = TotalOn(c.vers, Upto(c.vers, c.year), a)
<1>1. PICK n, p : Lists(c, vs, n, p)
  BY Zenon DEF HasRead
<1>2. PICK ws, K, L, e : ws = c.vers /\ K = Upto(vs, c.year) /\ L = Upto(ws, c.year) /\ e = YearEnd(c.year)
  OBVIOUS
<1>3. /\ n \in Nat /\ DOMAIN ws = 1 .. n /\ DOMAIN vs = 1 .. Len(vs) /\ Len(vs) \in Nat
      /\ \A i \in 1 .. n : p[i] \in 1 .. n /\ p[i] \in 1 .. Len(vs) /\ ws[i] = vs[p[i]] /\ Posted(ws[i])
      /\ \A k \in 1 .. n : \E i \in 1 .. n : k = p[i]
      /\ \A i, j \in 1 .. n : p[i] = p[j] => i = j
  <2>1. Len(vs) \in Nat
    BY SequenceIs DEF JournalOK
  <2> QED
    BY <1>1, <1>2, <2>1, ListedIs
<1>4. K = {k \in 1 .. Len(vs) : vs[k].date <= e} /\ L = {i \in 1 .. n : ws[i].date <= e}
  BY <1>2, <1>3 DEF Upto
<1>5. \A k \in K : k \in 1 .. n
  <2> SUFFICES ASSUME NEW k \in K, k \notin 1 .. n PROVE FALSE
    OBVIOUS
  <2>1. k \in 1 .. Len(vs) /\ vs[k].date <= e /\ k > n
    BY <1>3, <1>4
  <2>2. vs[k].date > e
    BY <1>1, <1>2, <2>1, Zenon DEF Lists
  <2>3. vs[k].date \in Nat /\ e \in Nat
    <3>1. Posted(vs[k]) /\ c.year \in Nat
      BY <2>1, Zenon DEF JournalOK, HasRead
    <3>2. vs[k].date \in Nat
      BY <3>1, Zenon DEF Posted
    <3> QED
      BY <1>2, <3>1, <3>2 DEF YearEnd
  <2> QED
    BY <2>1, <2>2, <2>3
<1>6. PICK q : q = [i \in L |-> p[i]]
  OBVIOUS
<1>7. \A i \in L : q[i] \in K /\ q[i] = p[i] /\ vs[q[i]] = ws[i]
  BY <1>3, <1>4, <1>6
<1>8. \A k \in K : \E i \in L : q[i] = k
  <2> SUFFICES ASSUME NEW k \in K PROVE \E i \in L : q[i] = k
    OBVIOUS
  <2>1. PICK i \in 1 .. n : k = p[i]
    BY <1>3, <1>5
  <2>2. ws[i].date <= e
    BY <1>3, <1>4, <2>1
  <2> QED
    BY <1>4, <1>7, <2>1, <2>2
<1>9. q \in Bijection(L, K)
  <2>1. q \in [L -> K]
    BY <1>6, <1>7
  <2>2. \A i, j \in L : q[i] = q[j] => i = j
    BY <1>3, <1>4, <1>7
  <2> QED
    BY <1>8, <2>1, <2>2 DEF Bijection, Injection, Surjection, IsInjective
<1>10. IsFiniteSet(L)
  <2>1. IsFiniteSet(1 .. n) /\ L \in SUBSET (1 .. n)
    BY <1>3, <1>4, FS_Interval
  <2> QED
    BY <2>1, FS_Subset
<1>11. \A i \in L : ws[i].lines \in Seq(Line) /\ vs[q[i]].lines = ws[i].lines
  BY <1>3, <1>4, <1>7 DEF Posted
<1>12. TotalOn(vs, K, a) = TotalOn(ws, L, a)
  BY <1>9, <1>10, <1>11, TotalReindexed
<1> QED
  BY <1>2, <1>12, Zenon

LEMMA ClosingKeeps ==
  ASSUME ExportInv, readClosing
  PROVE  ExportInv'
<1>1. exp.at = "closing"
  BY DEF readClosing
<1>2. JournalOK(journal) /\ ExportJob(exp) /\ HasRead(exp, journal) /\ Opens(exp)
  BY <1>1, ExportIs DEF ExportInv
<1>3. PICK ub \in Read(BalancesAsOf(YearEnd(exp.year))) : exp' = [exp EXCEPT !.at = "write", !.ub = ub]
  BY DEF readClosing
<1>4. PICK d : d = exp'
  OBVIOUS
<1>5. /\ DOMAIN d = {"at", "vers", "year", "ib", "ub", "torn", "backdated"}
      /\ d.at = "write" /\ d.ib = exp.ib /\ d.ub = ub /\ d.vers = exp.vers /\ d.year = exp.year
      /\ d.torn = exp.torn /\ d.backdated = exp.backdated
  BY <1>2, <1>3, <1>4 DEF ExportJob
<1>6. HasRead(d, journal)
  BY <1>2, <1>5, ReadStays
<1>7. PICK tb : tb = BalancesAsOf(YearEnd(exp.year))
  OBVIOUS
<1>8. ub = << >> \/ (SumsFit(tb) /\ ub = Rows(tb, IsBalance))
  BY <1>3, <1>7 DEF Read
<1>9. \A a \in DOMAIN ub : ub[a] \in Amount
  <2>1. CASE ub = << >>
    BY <2>1, SequenceEmpty
  <2>2. CASE SumsFit(tb) /\ ub = Rows(tb, IsBalance)
    BY <2>2 DEF SumsFit, Rows
  <2> QED
    BY <1>8, <2>1, <2>2
<1>10. ASSUME ~exp.torn, DOMAIN ub # {}, NEW a, IsBalance(a)
       PROVE  BalanceOf(ub, a) = TotalOn(exp.vers, Upto(exp.vers, exp.year), a)
  <2>1. SumsFit(tb) /\ ub = Rows(tb, IsBalance)
    BY <1>8, <1>10, SequenceEmpty, Zenon
  <2>2. BalanceOf(ub, a) = BalanceOf(tb, a)
    BY <1>10, <2>1, RowsAre
  <2>3. PICK K : K = Upto(journal, exp.year)
    OBVIOUS
  <2>4. tb = BalancesOf(journal, K)
    BY <1>7, <2>3, Zenon DEF BalancesAsOf, Upto
  <2>5. IsFiniteSet(K) /\ \A k \in K : journal[k].lines \in Seq(Line)
    <3>1. DOMAIN journal = 1 .. Len(journal) /\ Len(journal) \in Nat
      BY <1>2, SequenceIs DEF JournalOK
    <3>2. IsFiniteSet(1 .. Len(journal)) /\ K \in SUBSET (1 .. Len(journal))
      BY <2>3, <3>1, FS_Interval DEF Upto
    <3>3. IsFiniteSet(K)
      BY <3>2, FS_Subset
    <3> QED
      BY <1>2, <3>2, <3>3 DEF JournalOK, Posted
  <2>6. BalanceOf(tb, a) = TotalOn(journal, K, a)
    BY <2>4, <2>5, BalanceIsTotal
  <2>7. TotalOn(journal, K, a) = TotalOn(exp.vers, Upto(exp.vers, exp.year), a)
    BY <1>2, <1>10, <2>3, ListedTotals
  <2> QED
    BY <2>2, <2>6, <2>7, Zenon
<1>11. Closes(d)
  BY <1>5, <1>9, <1>10, Zenon DEF Closes
<1>12. ExportJob(d)
  BY <1>5 DEF ExportJob
<1>13. Opens(d)
  <2>1. exp.at # "opening" /\ d.at # "opening"
    BY <1>1, <1>5
  <2> QED
    BY <1>2, <1>5, <2>1, Zenon DEF Opens
<1>14. ExportOK(exp', journal)
  BY <1>4, <1>6, <1>11, <1>12, <1>13, Zenon DEF ExportOK
<1>15. UNCHANGED <<journal, file>>
  BY DEF readClosing
<1> QED
  BY <1>14, <1>15 DEF ExportInv

LEMMA TextIsRead ==
  ASSUME NEW b, \A a \in DOMAIN b : b[a] \in Amount
  PROVE  /\ DOMAIN amounts(b) = DOMAIN b
         /\ [x \in DOMAIN amounts(b) |-> parseAmount(amounts(b)[x])] = [x \in DOMAIN b |-> b[x]]
         /\ \A a : BalanceOf([x \in DOMAIN amounts(b) |-> parseAmount(amounts(b)[x])], a) = BalanceOf(b, a)
<1>1. DOMAIN amounts(b) = DOMAIN b /\ \A x \in DOMAIN b : amounts(b)[x] = amount(b[x])
  BY DEF amounts
<1>2. \A x \in DOMAIN b : parseAmount(amounts(b)[x]) = b[x]
  BY <1>1, AmountSurvives
<1>3. [x \in DOMAIN amounts(b) |-> parseAmount(amounts(b)[x])] = [x \in DOMAIN b |-> b[x]]
  BY <1>1, <1>2
<1>4. PICK g : g = [x \in DOMAIN amounts(b) |-> parseAmount(amounts(b)[x])]
  OBVIOUS
<1>5. DOMAIN g = DOMAIN b /\ \A x \in DOMAIN b : g[x] = b[x]
  BY <1>3, <1>4
<1>6. \A a : BalanceOf(g, a) = BalanceOf(b, a)
  BY <1>5 DEF BalanceOf
<1> QED
  BY <1>1, <1>3, <1>4, <1>6, Zenon

\* The file that is written is the text of the vouchers listed.
LEMMA WriteKeeps ==
  ASSUME ExportInv, Write
  PROVE  ExportInv'
<1>1. exp.at = "write" /\ exp' = NotStarted /\ UNCHANGED journal
  BY DEF Write
<1>2. JournalOK(journal) /\ ExportJob(exp) /\ HasRead(exp, journal) /\ Opens(exp) /\ Closes(exp)
  BY <1>1, ExportIs DEF ExportInv
<1>3. ExportOK(exp', journal')
  BY <1>1, Zenon DEF ExportOK
<1>4. JournalOK(journal')
  BY <1>1, <1>2, Zenon
<1>5. PICK f : f = [year |-> exp.year, konto |-> Chart, ib |-> amounts(exp.ib), ub |-> amounts(exp.ub),
                    vers |-> [i \in DOMAIN exp.vers |-> verRecord(exp.vers[i])],
                    of |-> exp.vers, torn |-> exp.torn, backdated |-> exp.backdated]
  OBVIOUS
<1>6. file' = << >> \/ file' = <<f>>
  BY <1>5, Zenon DEF Write
<1>7. /\ f.year = exp.year /\ f.ib = amounts(exp.ib) /\ f.ub = amounts(exp.ub)
      /\ f.vers = [i \in DOMAIN exp.vers |-> verRecord(exp.vers[i])]
      /\ f.of = exp.vers /\ f.torn = exp.torn /\ f.backdated = exp.backdated
  BY <1>5
<1>8. PICK ws : ws = exp.vers
  OBVIOUS
<1>9. PICK n \in Nat : DOMAIN ws = 1 .. n /\ ws = [i \in 1 .. n |-> ws[i]] /\ \A i \in 1 .. n : Posted(ws[i])
  <2>1. PICK n, p : Lists(exp, journal, n, p)
    BY <1>2, Zenon DEF HasRead
  <2>2. n \in Nat /\ DOMAIN ws = 1 .. n /\ \A i \in 1 .. n : Posted(ws[i])
    BY <1>2, <1>8, <2>1, ListedIs
  <2>3. ws = [i \in 1 .. n |-> journal[p[i]]]
    BY <1>8, <2>1, Zenon DEF Lists
  <2>4. ws = [i \in 1 .. n |-> ws[i]]
    BY <2>2, <2>3
  <2> QED
    BY <2>2, <2>4
<1>10. Sequence(ws) /\ Len(ws) = n
  BY <1>9, SequenceMade
<1>11. PICK rs : rs = [i \in 1 .. n |-> verRecord(ws[i])]
  OBVIOUS
<1>12. Sequence(rs) /\ Len(rs) = n /\ DOMAIN rs = 1 .. n /\ \A i \in 1 .. n : rs[i] = verRecord(ws[i])
  <2>1. DOMAIN rs = 1 .. n /\ rs = [i \in 1 .. n |-> rs[i]] /\ \A i \in 1 .. n : rs[i] = verRecord(ws[i])
    BY <1>11
  <2> QED
    BY <2>1, SequenceMade
<1>13. f.vers = rs
  BY <1>7, <1>8, <1>9, <1>11, Zenon
<1>14. FileOK(f)
  <2>1. f.year \in Nat
    BY <1>2, <1>7, Zenon DEF HasRead
  <2>2. \A i \in 1 .. n : /\ 1 \in DOMAIN rs[i].head /\ 3 \in DOMAIN rs[i].head
                          /\ rs[i].head[3].kind = "date" => rs[i].head[3].val \in Nat
    BY <1>9, <1>12, HeadIs
  <2>3. rs \in Seq(Range(rs))
    BY <1>12 DEF Sequence
  <2> QED
    BY <1>12, <1>13, <2>1, <2>2, <2>3, Zenon DEF FileOK
<1>15. f.vers = [i \in 1 .. Len(f.of) |-> verRecord(f.of[i])]
  BY <1>7, <1>8, <1>10, <1>11, <1>13, Zenon
<1>16. ~f.backdated => DOMAIN f.ib = {}
  <2>1. exp.at # "opening"
    BY <1>1
  <2>2. DOMAIN amounts(exp.ib) = DOMAIN exp.ib
    BY DEF amounts
  <2> QED
    BY <1>2, <1>7, <2>1, <2>2, Zenon DEF Opens
<1>17. ASSUME ~f.torn, DOMAIN f.ub # {}, NEW a, IsBalance(a)
       PROVE  BalanceOf([x \in DOMAIN f.ub |-> parseAmount(f.ub[x])], a) = TotalOn(f.of, Upto(f.of, f.year), a)
  <2>1. \A x \in DOMAIN exp.ub : exp.ub[x] \in Amount
    BY <1>1, <1>2, Zenon DEF Closes
  <2>2. /\ DOMAIN amounts(exp.ub) = DOMAIN exp.ub
        /\ BalanceOf([x \in DOMAIN amounts(exp.ub) |-> parseAmount(amounts(exp.ub)[x])], a) = BalanceOf(exp.ub, a)
    BY <2>1, TextIsRead
  <2>3. BalanceOf([x \in DOMAIN f.ub |-> parseAmount(f.ub[x])], a) = BalanceOf(exp.ub, a)
    BY <1>7, <2>2, Zenon
  <2>4. ~exp.torn /\ DOMAIN exp.ub # {}
    BY <1>7, <1>17, <2>2, Zenon
  <2>5. BalanceOf(exp.ub, a) = TotalOn(exp.vers, Upto(exp.vers, exp.year), a)
    BY <1>1, <1>2, <1>17, <2>4, Zenon DEF Closes
  <2> QED
    BY <1>7, <2>3, <2>5, Zenon
<1>18. FromVouchers(f)
  <2>1. Sequence(f.of) /\ \A i \in 1 .. Len(f.of) : Posted(f.of[i])
    BY <1>7, <1>8, <1>9, <1>10, Zenon
  <2> QED
    BY <1>14, <1>15, <1>16, <1>17, <2>1, Zenon DEF FromVouchers
<1>19. Sequence(file') /\ Len(file') <= 1 /\ \A i \in 1 .. Len(file') : FromVouchers(file'[i])
  <2>1. CASE file' = << >>
    <3>1. Sequence(file') /\ Len(file') = 0
      BY <2>1, SequenceEmpty
    <3> QED
      BY <3>1
  <2>2. CASE file' = <<f>>
    <3>1. Sequence(file') /\ Len(file') = 1 /\ file'[1] = f
      BY <2>2, SequenceOne
    <3>2. Len(file') <= 1 /\ \A i \in 1 .. Len(file') : i = 1
      BY <3>1
    <3> QED
      BY <1>18, <3>1, <3>2, Zenon
  <2> QED
    BY <1>6, <2>1, <2>2
<1> QED
  BY <1>3, <1>4, <1>19, Zenon DEF ExportInv

LEMMA ExportStep ==
  ASSUME ExportInv, [SieNext]_sieVars
  PROVE  ExportInv'
<1>1. CASE UNCHANGED <<journal, exp, file>>
  BY <1>1 DEF ExportInv
<1>2. CASE \E r \in Import, f \in Foreign \cup Range(file) : handleSIEImport(r, f)
  BY <1>1, <1>2 DEF handleSIEImport
<1>3. CASE \E r \in Import : ImportSIE(r) \/ Fails(r) \/ DeadlockDetected(r)
  BY <1>1, <1>3 DEF ImportSIE, CountVerifications, UpsertAccount, NextVerificationNumber, InsertVerification,
                    logAudit, Commit, Fails, DeadlockDetected
<1>4. CASE \E v \in OwnPosts : PostByHand(v)
  BY <1>1, <1>4 DEF PostByHand
<1> QED
  BY <1>1, <1>2, <1>3, <1>4, JournalGrows, ListKeeps, OpeningKeeps, ClosingKeeps, WriteKeeps DEF SieNext, sieVars

LEMMA FilesAreFine ==
  ASSUME ExportInv
  PROVE  FilesFine
<1>1. DOMAIN file = 1 .. Len(file)
  BY SequenceIs DEF ExportInv
<1>2. \A f \in Range(file) : FileOK(f)
  BY <1>1 DEF ExportInv, FromVouchers, Range
<1> QED
  BY <1>2, SieAssumption DEF FilesFine

SieInv == ImportsInv /\ NumbersInv /\ ExportInv

LEMMA SieStarts ==
  ASSUME SieInit
  PROVE  SieInv
<1>1. journal = << >> /\ exp = NotStarted /\ file = << >> /\ ledger = << >> /\ imp = [r \in Import |-> NotStarted]
  BY DEF SieInit
<1>2. Sequence(<< >>) /\ Len(<< >>) = 0 /\ DOMAIN << >> = {} /\ 1 .. 0 = {}
  BY SequenceEmpty
<1>3. DOMAIN imp = Import /\ \A r \in Import : imp[r] = NotStarted
  BY <1>1
<1>4. \A r \in Import : imp[r].at = "idle"
  BY <1>3, NotStartedIs
<1>5. ImportsInv
  <2>1. \A r \in Import : ImpOK(r, imp[r])
    BY <1>3, Zenon DEF ImpOK
  <2>2. \A r \in Import : DoneOK(r, imp[r], ledger)
    BY <1>4 DEF DoneOK
  <2>3. LedgerOK
    BY <1>1, <1>2, Zenon DEF LedgerOK
  <2> QED
    BY <1>3, <2>1, <2>2, <2>3 DEF ImportsInv
<1>6. NumbersInv
  <2>1. \A r \in Import : ~Working(r)
    BY <1>4 DEF Working, InTx
  <2>2. Distinct(ledger) /\ DOMAIN ledger = {}
    BY <1>1, NothingHas, Zenon
  <2> QED
    BY <2>1, <2>2 DEF NumbersInv
<1>7. ExportInv
  <2>1. MaxPosted \in Nat
    BY SieAssumption
  <2>2. JournalOK(journal)
    BY <1>1, <1>2, <2>1 DEF JournalOK
  <2>3. ExportOK(exp, journal)
    BY <1>1, Zenon DEF ExportOK
  <2>4. Sequence(file) /\ Len(file) = 0
    BY <1>1, <1>2, Zenon
  <2>5. Len(file) <= 1 /\ 1 .. Len(file) = {}
    BY <2>4
  <2> QED
    BY <2>2, <2>3, <2>4, <2>5, Zenon DEF ExportInv
<1> QED
  BY <1>5, <1>6, <1>7 DEF SieInv

LEMMA SieKeeps ==
  ASSUME SieInv, [SieNext]_sieVars
  PROVE  SieInv'
  BY ImportsStep, NumbersStep, ExportStep, FilesAreFine DEF SieInv

LEMMA SieHolds == SieSpec => []SieInv
<1>1. SieInit => SieInv
  BY SieStarts
<1>2. SieInv /\ [SieNext]_sieVars => SieInv'
  BY SieKeeps
<1> QED
  BY <1>1, <1>2, PTL DEF SieSpec

LEMMA InvShapes ==
  ASSUME SieInv
  PROVE  SieTypeOK
<1>1. Len(journal) <= MaxPosted /\ Len(file) <= 1
  BY DEF SieInv, ExportInv, JournalOK
<1>2. exp.at \in {"idle", "opening", "closing", "write"}
  BY NotStartedIs DEF SieInv, ExportInv, ExportOK, ExportJob
<1>3. ASSUME NEW r \in Import PROVE imp[r].at \in InTx \cup {"idle", "count", "done", "failed"}
  <2>1. ImpOK(r, imp[r])
    BY DEF SieInv, ImportsInv
  <2>2. imp[r] = NotStarted \/ imp[r].at \in {"done", "failed"} \/ imp[r].at \in InTx \cup {"count"}
    BY <2>1, Zenon DEF ImpOK
  <2>3. CASE imp[r] = NotStarted
    <3>1. imp[r].at = "idle"
      BY <2>3, NotStartedIs
    <3> QED
      BY <3>1
  <2> QED
    BY <2>2, <2>3
<1>4. ASSUME NEW v \in Range(ledger) PROVE v.date \in Nat /\ v.number \in Nat /\ Validate(v.lines)
  <2>1. Sequence(ledger) /\ DOMAIN ledger = 1 .. Len(ledger)
    BY SequenceIs DEF SieInv, ImportsInv, LedgerOK
  <2>2. PICK k \in DOMAIN ledger : v = ledger[k]
    BY DEF Range
  <2> QED
    BY <2>1, <2>2 DEF SieInv, ImportsInv, LedgerOK
<1> QED
  BY <1>1, <1>2, <1>3, <1>4 DEF SieTypeOK

\* ImportSIE, for any files, any number of imports at the same time and any vouchers
\* posted by hand meanwhile: the ledger they land in is sound at every moment.
\* Its rows are balanced, an import has left all of its vouchers or none, and every
\* series is numbered 1, 2, 3, ... without a gap.
THEOREM ImportedBooksAreSound == SieSpec => []LedgerSound
<1>1. SieInv => LedgerSound
  BY InvShapes, InvAllOrNothing, InvGapless DEF SieInv, LedgerSound
<1> QED
  BY <1>1, SieHolds, PTL

-----------------------------------------------------------------------------
(* There and back                                                          *)

\* A file without opening balances has none to import.
LEMMA NothingOpens ==
  ASSUME NEW f, DOMAIN f.ib = {}
  PROVE  opening(f) = << >>
<1>1. {a \in DOMAIN f.ib : parseAmount(f.ib[a]) # 0} = {}
  OBVIOUS
<1> QED
  BY <1>1, Zenon DEF opening

\* An import of the company's own file leaves its vouchers side by side.
LEMMA OwnImportIs ==
  ASSUME SieInv, NEW r \in Import, OwnImport(r)
  PROVE  LET was == imp[r].file.of
         IN  /\ Sequence(was) /\ \A i \in 1 .. Len(was) : Posted(was[i])
             /\ \E n \in Nat :
                  /\ n + Len(was) <= Len(ledger)
                  /\ By(r) = n + 1 .. n + Len(was)
                  /\ \A i \in 1 .. Len(was) :
                       /\ ledger[n + i].lines = was[i].lines
                       /\ Len(was[i].series) = 1 =>
                            ledger[n + i].series = was[i].series /\ ledger[n + i].date = was[i].date
<1>1. PICK c, f, was : c = imp[r] /\ f = c.file /\ was = f.of
  OBVIOUS
<1>2. c.at = "done" /\ f \in Range(file) /\ ~f.backdated
  BY <1>1, Zenon DEF OwnImport, Done
<1>3. FromVouchers(f)
  <2>1. DOMAIN file = 1 .. Len(file) /\ \A i \in 1 .. Len(file) : FromVouchers(file[i])
    BY SequenceIs DEF SieInv, ExportInv
  <2>2. PICK i \in DOMAIN file : f = file[i]
    BY <1>2 DEF Range
  <2> QED
    BY <2>1, <2>2, Zenon
<1>4. PICK m \in Nat : m = Len(was) /\ Sequence(was) /\ \A i \in 1 .. m : Posted(was[i])
  <2>1. Sequence(was) /\ \A i \in 1 .. Len(was) : Posted(was[i])
    BY <1>1, <1>3, Zenon DEF FromVouchers
  <2>2. Len(was) \in Nat
    BY <2>1, SequenceIs
  <2> QED
    BY <2>1, <2>2
<1>5. f.vers = [i \in 1 .. m |-> verRecord(was[i])]
  BY <1>1, <1>3, <1>4, Zenon DEF FromVouchers
<1>6. Len(f.vers) = m /\ \A i \in 1 .. m : f.vers[i] = verRecord(was[i])
  BY <1>5
<1>7. PICK iv : iv = ImportVouchers(f)
  OBVIOUS
<1>8. Len(iv) = m /\ \A i \in 1 .. m : iv[i] = voucher(f, verRecord(was[i]))
  <2>1. opening(f) = << >>
    BY <1>2, <1>3, NothingOpens DEF FromVouchers
  <2>2. FileOK(f)
    BY <1>3, Zenon DEF FromVouchers
  <2>3. Len(iv) = Len(f.vers) /\ \A i \in 1 .. Len(f.vers) : iv[i] = voucher(f, f.vers[i])
    BY <1>7, <2>1, <2>2, ImportVouchersAre
  <2> QED
    BY <1>6, <2>3, Zenon
<1>9. \A i \in 1 .. m : /\ iv[i].lines = was[i].lines
                        /\ Len(was[i].series) = 1 => iv[i].series = was[i].series /\ iv[i].date = was[i].date
  BY <1>4, <1>8, VoucherSurvives
<1>10. PICK n \in Nat : /\ n + Len(iv) <= Len(ledger)
                        /\ \A k \in 1 .. Len(ledger) : ledger[k].by = r <=> k \in n + 1 .. n + Len(iv)
                        /\ \A i \in 1 .. Len(iv) : ledger[n + i] = Row(iv[i], ledger[n + i].number, r)
  <2>1. DoneOK(r, c, ledger)
    BY <1>1 DEF SieInv, ImportsInv
  <2> QED
    BY <1>1, <1>2, <1>7, <2>1, Zenon DEF DoneOK
<1>11. PICK l \in Nat : l = Len(ledger) /\ DOMAIN ledger = 1 .. l
  BY SequenceIs DEF SieInv, ImportsInv, LedgerOK
<1>12. n + m <= l /\ \A k \in 1 .. l : ledger[k].by = r <=> k \in n + 1 .. n + m
  BY <1>8, <1>10, <1>11, Zenon
<1>13. By(r) = n + 1 .. n + m
  <2>1. By(r) = {k \in 1 .. l : ledger[k].by = r}
    BY <1>11, Zenon DEF By
  <2>2. {k \in 1 .. l : ledger[k].by = r} = n + 1 .. n + m
    BY <1>12
  <2> QED
    BY <2>1, <2>2, Zenon
<1>14. ASSUME NEW i \in 1 .. m
       PROVE  /\ ledger[n + i].lines = iv[i].lines /\ ledger[n + i].series = iv[i].series
              /\ ledger[n + i].date = iv[i].date
  <2>1. PICK x, y : x = ledger[n + i] /\ x = Row(iv[i], y, r)
    BY <1>8, <1>10, Zenon
  <2>2. x.lines = iv[i].lines /\ x.series = iv[i].series /\ x.date = iv[i].date
    BY <2>1 DEF Row
  <2> QED
    BY <2>1, <2>2, Zenon
<1>15. \A i \in 1 .. m :
         /\ ledger[n + i].lines = was[i].lines
         /\ Len(was[i].series) = 1 => ledger[n + i].series = was[i].series /\ ledger[n + i].date = was[i].date
  BY <1>9, <1>14, Zenon
<1> QED
  BY <1>1, <1>4, <1>11, <1>12, <1>13, <1>15, Zenon

LEMMA InvVouchers ==
  ASSUME SieInv
  PROVE  VouchersSurvive
<1> SUFFICES ASSUME NEW r \in Import, OwnImport(r)
             PROVE  LET was == imp[r].file.of
                    IN  \E n \in 0 .. Len(ledger) :
                          /\ By(r) = n + 1 .. n + Len(was)
                          /\ \A i \in DOMAIN was :
                               /\ ledger[n + i].lines = was[i].lines
                               /\ Len(was[i].series) = 1 =>
                                    ledger[n + i].series = was[i].series /\ ledger[n + i].date = was[i].date
  BY Zenon DEF VouchersSurvive
<1>1. PICK was : was = imp[r].file.of
  OBVIOUS
<1>2. PICK n \in Nat :
        /\ n + Len(was) <= Len(ledger)
        /\ By(r) = n + 1 .. n + Len(was)
        /\ \A i \in 1 .. Len(was) :
             /\ ledger[n + i].lines = was[i].lines
             /\ Len(was[i].series) = 1 =>
                  ledger[n + i].series = was[i].series /\ ledger[n + i].date = was[i].date
  BY <1>1, OwnImportIs, Zenon
<1>3. Sequence(was)
  BY <1>1, OwnImportIs, Zenon
<1>4. DOMAIN was = 1 .. Len(was) /\ Len(was) \in Nat
  BY <1>3, SequenceIs
<1>5. Len(ledger) \in Nat
  BY SequenceIs DEF SieInv, ImportsInv, LedgerOK
<1>6. n \in 0 .. Len(ledger)
  BY <1>2, <1>4, <1>5
<1> QED
  BY <1>1, <1>2, <1>4, <1>6, Zenon

LEMMA InvBalances ==
  ASSUME SieInv
  PROVE  BalancesSurvive
<1> SUFFICES ASSUME NEW r \in Import, OwnImport(r), NEW a
             PROVE  BalanceOf(BalancesOf(ledger, By(r)), a) = BalanceOf(Balances(imp[r].file.of), a)
  BY Zenon DEF BalancesSurvive
<1>1. PICK was : was = imp[r].file.of
  OBVIOUS
<1>2. Sequence(was) /\ \A i \in 1 .. Len(was) : Posted(was[i])
  BY <1>1, OwnImportIs, Zenon
<1>3. PICK m \in Nat : m = Len(was) /\ DOMAIN was = 1 .. m
  BY <1>2, SequenceIs
<1>4. PICK n \in Nat : By(r) = n + 1 .. n + Len(was) /\ \A i \in 1 .. Len(was) : ledger[n + i].lines = was[i].lines
  BY <1>1, OwnImportIs, Zenon
<1>5. PICK K, L : K = n + 1 .. n + m /\ L = 1 .. m
  OBVIOUS
<1>6. By(r) = K /\ DOMAIN was = L
  BY <1>3, <1>4, <1>5, Zenon
<1>7. \A i \in L : ledger[n + i].lines = was[i].lines /\ was[i].lines \in Seq(Line)
  BY <1>2, <1>3, <1>4, <1>5, Zenon DEF Posted
<1>8. PICK p : p = [i \in L |-> n + i]
  OBVIOUS
<1>9. p \in Bijection(L, K)
  <2>1. p \in [L -> K] /\ \A i \in L : p[i] = n + i
    BY <1>5, <1>8
  <2>2. \A i, j \in L : p[i] = p[j] => i = j
    BY <1>5, <2>1
  <2>3. \A k \in K : \E i \in L : p[i] = k
    <3> SUFFICES ASSUME NEW k \in K PROVE \E i \in L : p[i] = k
      OBVIOUS
    <3>1. k - n \in L /\ n + (k - n) = k
      BY <1>5
    <3> QED
      BY <2>1, <3>1
  <2> QED
    BY <2>1, <2>2, <2>3 DEF Bijection, Injection, Surjection, IsInjective
<1>10. IsFiniteSet(L) /\ IsFiniteSet(K)
  BY <1>5, FS_Interval
<1>11. \A i \in L : ledger[p[i]].lines = was[i].lines
  BY <1>7, <1>8
<1>12. TotalOn(ledger, K, a) = TotalOn(was, L, a)
  BY <1>7, <1>9, <1>10, <1>11, TotalReindexed
<1>13. \A k \in K : ledger[k].lines \in Seq(Line)
  <2> SUFFICES ASSUME NEW k \in K PROVE ledger[k].lines \in Seq(Line)
    OBVIOUS
  <2>1. PICK i \in L : k = n + i
    <3>1. k - n \in L /\ n + (k - n) = k
      BY <1>5
    <3> QED
      BY <3>1
  <2> QED
    BY <1>7, <2>1, Zenon
<1>14. BalanceOf(BalancesOf(ledger, K), a) = TotalOn(ledger, K, a)
  BY <1>10, <1>13, BalanceIsTotal
<1>15. BalanceOf(BalancesOf(was, L), a) = TotalOn(was, L, a)
  BY <1>7, <1>10, BalanceIsTotal
<1> QED
  BY <1>1, <1>6, <1>12, <1>14, <1>15, Zenon DEF Balances

LEMMA InvFile ==
  ASSUME SieInv
  PROVE  FileConsistent
<1> SUFFICES ASSUME NEW f \in Range(file), ~f.torn, DOMAIN f.ub # {},
                    NEW a \in DOMAIN BalancesOf(f.of, {i \in DOMAIN f.of : f.of[i].date <= YearEnd(f.year)}),
                    IsBalance(a)
             PROVE  BalanceOf([x \in DOMAIN f.ub |-> parseAmount(f.ub[x])], a)
                      = BalancesOf(f.of, {i \in DOMAIN f.of : f.of[i].date <= YearEnd(f.year)})[a]
  BY Zenon DEF FileConsistent
<1>1. FromVouchers(f)
  <2>1. DOMAIN file = 1 .. Len(file) /\ \A i \in 1 .. Len(file) : FromVouchers(file[i])
    BY SequenceIs DEF SieInv, ExportInv
  <2>2. PICK i \in DOMAIN file : f = file[i]
    BY DEF Range
  <2> QED
    BY <2>1, <2>2, Zenon
<1>2. PICK K : K = Upto(f.of, f.year) /\ K = {i \in DOMAIN f.of : f.of[i].date <= YearEnd(f.year)}
  BY Zenon DEF Upto
<1>3. BalanceOf([x \in DOMAIN f.ub |-> parseAmount(f.ub[x])], a) = TotalOn(f.of, K, a)
  BY <1>1, <1>2, Zenon DEF FromVouchers
<1>4. a \in DOMAIN BalancesOf(f.of, K)
  BY <1>2, Zenon
<1>5. BalancesOf(f.of, K)[a] = TotalOn(f.of, K, a)
  BY <1>4 DEF BalancesOf
<1> QED
  BY <1>2, <1>3, <1>5, Zenon

\* ExportSIE, Write, Parse and ImportSIE, for any journal, any year and whatever is
\* posted while the export reads: an import of the file gives the importing company
\* the vouchers it was made of, each with its lines, and the balance of every account
\* to the ore; the closing balances in the file are those of its vouchers.
THEOREM ExportedBooksReturn == SieSpec => []RoundTrip
<1>1. SieInv => RoundTrip
  BY InvBalances, InvVouchers, InvFile DEF RoundTrip
<1> QED
  BY <1>1, SieHolds, PTL
=============================================================================
